---- MODULE Spec2Model ----
(***************************************************************************)
(* A model of the game play core of Sonorous (src/engine/player.rs): the   *)
(* grading bookkeeping of Player::update_grade and the per-frame           *)
(* Player::tick with its input mapping, escape sweep, press/unpress        *)
(* handling and bomb sweep.                                                *)
(*                                                                         *)
(* Units.  Wall-clock and chart times are integers counted in time units   *)
(* of TimeUnit * 25 microseconds.  Distances handed to the grading formula *)
(* are integers counted in 25 microseconds, so that the cutoffs of         *)
(* player.rs:105-111 (0.0144 s, 0.048 s, 0.084 s, 0.144 s) are the         *)
(* integers 576, 1920, 3360 and 5760.  Damage ratios are in 1/1000.        *)
(* Play speeds are integers counted in 1/10000, so that the speed mark 0.1 *)
(* is 1000 and the tolerance 0.001 of player.rs:227 is 10.                 *)
(***************************************************************************)
EXTENDS Integers, Sequences, FiniteSets, TLC

VARIABLES
    opts,      \* the play mode of the Options: "Play", "AutoPlay", "Exclusive"
    chartno,   \* which chart of Charts is being played (fixed at construction)
    player,    \* the Player structure (a record, fields named as in the source)
    held,      \* the physical keys currently held down by the user (environment)
    devices,   \* the actual inputs the user operates during this play (environment)
    running,   \* the value returned by the last call of tick (TRUE before the first)
    tiebreak,  \* which of two equidistant objects find_closest_of_type returns
    lastcall,  \* the last direct call of a grading operation: its input and the state before
    conv,      \* the last call of an object conversion (format/obj.rs): receiver and result
    preproc,   \* the BMS preprocessor, the commands fed to it and the result vector
    keyspec,   \* the last call of key_spec (engine/keyspec.rs): arguments and result
    mixer,     \* the sound channels of the mixer and the two tables of play_sound
    scene      \* the song selection scene, its tasks and the messages in flight

vars == <<opts, chartno, player, held, devices, running, tiebreak, lastcall,
          conv, preproc, keyspec, mixer, scene>>

\* the parts of the program that take no part in the play
setup == <<conv, preproc, keyspec, mixer, scene>>

\* nothing of the setup has been used
NoSetup == [op |-> "none", n |-> 0]
SetupIdle ==
    /\ conv = NoSetup /\ preproc = NoSetup /\ keyspec = NoSetup
    /\ mixer = NoSetup /\ scene = NoSetup

----------------------------------------------------------------------------
(* Bounds of the model *)

\* length of one model time unit, in 25 microseconds (36 ms)
TimeUnit == 1440
\* the wall clock of a play stops being advanced after this many time units
MaxNow == 8
\* the largest advance of the wall clock between two ticks, in time units
MaxDt == 2
\* the largest number of events polled in one tick
MaxEvents == 1
\* the largest number of events polled in one tick of a burst
MaxBurst == 2
\* number of grading calls applied in a row by the grading specification
MaxCalls == 3
\* the largest number of MISS grades before the opening run of COOL grades
MaxOpeningMiss == 4
\* the longest opening run of COOL grades of the grading specification
MaxWarmUp == 100
\* the number of notes of the chart assumed by the grading specification
GradeNotes == 200

----------------------------------------------------------------------------
(* Grades and grading constants, player.rs:70-125 *)

MISS == 0
BAD == 1
GOOD == 2
GREAT == 3
COOL == 4
NGRADES == 5
Grades == 0 .. (NGRADES - 1)

COOL_CUTOFF == 576
GREAT_CUTOFF == 1920
GOOD_CUTOFF == 3360
BAD_CUTOFF == 5760

MAXGAUGE == 512
SCOREPERNOTE == 300

\* Damage values (format/obj.rs:72): GaugeDamage(ratio), ratio in 1/1000, or InstantDeath.
\* NoDamage stands for the None of Option<Damage>.
GaugeDamage(ratio) == [kind |-> "GaugeDamage", ratio |-> ratio]
InstantDeath == [kind |-> "InstantDeath", ratio |-> 0]
NoDamage == [kind |-> "None", ratio |-> 0]

MISS_DAMAGE == GaugeDamage(59)
BAD_DAMAGE == GaugeDamage(30)

Min(a, b) == IF a < b THEN a ELSE b
Max(a, b) == IF a > b THEN a ELSE b
Abs(a) == IF a < 0 THEN -a ELSE a

----------------------------------------------------------------------------
(* Player::update_grade and its variants, player.rs:321-378 *)

\* (scoredelta * SCOREPERNOTE * (1.0 + lastcombo / nnotes)) as uint, where
\* scoredelta = max(1 - dist / BAD_CUTOFF, 0) is carried as the distance dist.
\* A distance at or beyond the cutoff is scoredelta 0.
ScoreDelta(p, dist) ==
    IF dist >= BAD_CUTOFF THEN 0
    ELSE ((BAD_CUTOFF - dist) * SCOREPERNOTE * (p.nnotes + p.lastcombo))
             \div (BAD_CUTOFF * p.nnotes)

\* the combo and gauge part of update_grade, player.rs:329-340
ComboGaugeUncapped(p, grade) ==
    CASE grade \in {MISS, BAD} -> [p EXCEPT !.lastcombo = 0]
      [] grade = GOOD -> p
      [] OTHER ->
           LET weight == IF grade = GREAT THEN 2 ELSE 3
               cmbbonus == Min(p.lastcombo, 100) \div 50
           IN [p EXCEPT !.lastcombo = p.lastcombo + 1,
                        !.gauge = p.gauge + weight + cmbbonus]

ComboGauge(p, grade) ==
    CASE grade \in {MISS, BAD} -> [p EXCEPT !.lastcombo = 0]
      [] grade = GOOD -> p
      [] OTHER ->
           LET weight == IF grade = GREAT THEN 2 ELSE 3
               cmbbonus == Min(p.lastcombo, 100) \div 50
           IN [p EXCEPT !.lastcombo = p.lastcombo + 1,
                        !.gauge = Min(p.gauge + weight + cmbbonus, MAXGAUGE)]

\* self.bestcombo = cmp::max(self.bestcombo, self.lastcombo), player.rs:340
BestComboStale(p) == p

BestCombo(p) == [p EXCEPT !.bestcombo = Max(p.bestcombo, p.lastcombo)]

\* the damage part of update_grade, player.rs:342-350
ApplyDamageUnscaled(p, damage) ==
    CASE damage.kind = "GaugeDamage" ->
           [p EXCEPT !.gauge = p.gauge - damage.ratio]
      [] damage.kind = "InstantDeath" ->
           [p EXCEPT !.gauge = Min(p.gauge, 0)]
      [] OTHER -> p

ApplyDamage(p, damage) ==
    CASE damage.kind = "GaugeDamage" ->
           [p EXCEPT !.gauge = p.gauge - ((MAXGAUGE * damage.ratio) \div 1000)]
      [] damage.kind = "InstantDeath" ->
           [p EXCEPT !.gauge = Min(p.gauge, 0)]
      [] OTHER -> p

\* the boolean returned by update_grade
KeepGoingAlways(damage) == TRUE

KeepGoing(damage) == damage.kind # "InstantDeath"

\* update_grade(grade, scoredelta, damage); dist carries scoredelta
update_grade(p, grade, dist, damage) ==
    LET p1 == [p EXCEPT !.gradecounts[grade] = p.gradecounts[grade] + 1,
                        !.lastgrade = <<grade, p.now>>,
                        !.score = p.score + ScoreDelta(p, dist)]
        p2 == ComboGauge(p1, grade)
        p3 == BestCombo(p2)
    IN ApplyDamage(p3, damage)

\* the grade and damage chosen by update_grade_from_distance, player.rs:357-362
GradeOfDistanceSwapped(dist) ==
    LET d == Abs(dist)
    IN IF d < COOL_CUTOFF THEN <<COOL, NoDamage>>
       ELSE IF d < GREAT_CUTOFF THEN <<GOOD, NoDamage>>
       ELSE IF d < GOOD_CUTOFF THEN <<GREAT, NoDamage>>
       ELSE IF d < BAD_CUTOFF THEN <<BAD, BAD_DAMAGE>>
       ELSE <<MISS, MISS_DAMAGE>>

GradeOfDistance(dist) ==
    LET d == Abs(dist)
    IN IF d < COOL_CUTOFF THEN <<COOL, NoDamage>>
       ELSE IF d < GREAT_CUTOFF THEN <<GREAT, NoDamage>>
       ELSE IF d < GOOD_CUTOFF THEN <<GOOD, NoDamage>>
       ELSE IF d < BAD_CUTOFF THEN <<BAD, BAD_DAMAGE>>
       ELSE <<MISS, MISS_DAMAGE>>

update_grade_from_distance(p, dist) ==
    LET gd == GradeOfDistance(dist)
    IN update_grade(p, gd[1], Abs(dist), gd[2])

update_grade_from_damage(p, damage) == update_grade(p, MISS, BAD_CUTOFF, damage)

update_grade_to_miss(p) == update_grade(p, MISS, BAD_CUTOFF, MISS_DAMAGE)

----------------------------------------------------------------------------
(* Play speed marks, player.rs:219-248 *)

SPEED_MARKS ==
    << 1000, 2000, 4000, 6000, 8000, 10000, 12000, 15000, 20000, 25000, 30000, 35000,
       40000, 45000, 50000, 55000, 60000, 70000, 80000, 100000, 150000, 250000, 400000,
       600000, 990000 >>

\* the tolerance 0.001 of the speed comparisons, player.rs:227, 240 and 440
SPEED_TOLERANCE == 10
\* Option<f64>::None for targetspeed and for the result of the searches
NoSpeed == 0

\* the loop of next_speed_mark from the i-th mark on, player.rs:227-233
RECURSIVE NextMarkFrom(_, _, _)
NextMarkFrom(current, i, prev) ==
    IF i > Len(SPEED_MARKS) THEN NoSpeed
    ELSE IF SPEED_MARKS[i] < current - SPEED_TOLERANCE
         THEN NextMarkFrom(current, i + 1, SPEED_MARKS[i])
         ELSE prev

\* next_speed_mark, player.rs:225-235
next_speed_mark(current) == NextMarkFrom(current, 1, NoSpeed)

\* the loop of previous_speed_mark from the i-th mark down, player.rs:240-246
RECURSIVE PreviousMarkFrom(_, _, _)
PreviousMarkFrom(current, i, next) ==
    IF i < 1 THEN NoSpeed
    ELSE IF SPEED_MARKS[i] > current + SPEED_TOLERANCE
         THEN PreviousMarkFrom(current, i - 1, SPEED_MARKS[i])
         ELSE next

\* previous_speed_mark, player.rs:238-248
previous_speed_mark(current) == PreviousMarkFrom(current, Len(SPEED_MARKS), NoSpeed)

----------------------------------------------------------------------------
(* Chart objects, format/obj.rs *)

\* InputState, engine/input.rs:76-97
Positive == 1
Neutral == 0
Negative == -1
InputStates == {Positive, Neutral, Negative}

\* the lanes of the key specification in use
Lanes == {1}
\* Option<BmsPointer>::None for thru, as an index
NoPointer == 0

Obj(type, lane, time) ==
    [type |-> type, lane |-> lane, time |-> time, damage |-> NoDamage, bpm |-> 1]
Visible(lane, time) == Obj("Visible", lane, time)
LNStart(lane, time) == Obj("LNStart", lane, time)
LNDone(lane, time) == Obj("LNDone", lane, time)
Bomb(lane, time, damage) == [Obj("Bomb", lane, time) EXCEPT !.damage = damage]
BGM(time) == Obj("BGM", 0, time)
SetBPM(time, bpm) == [Obj("SetBPM", 0, time) EXCEPT !.bpm = bpm]
End(time) == Obj("End", 0, time)

\* the time +infinity of the objects that follow a negative BPM
Never == 1000
\* TimelineInfo::originoffset: the virtual position at which the play starts
originoffset == 0

\* ObjQueryOps, format/obj.rs:316-398
is_lnstart(obj) == obj.type = "LNStart"
is_lndone(obj) == obj.type = "LNDone"
is_soundable(obj) == obj.type \in {"Visible", "Invisible", "LNStart", "LNDone"}
is_gradable(obj) == obj.type \in {"Visible", "LNStart", "LNDone"}
is_object(obj) == obj.type \in {"Visible", "Invisible", "LNStart", "LNDone", "Bomb"}
\* object_lane: Some(lane) for an object, None (0) otherwise
object_lane(obj) == IF is_object(obj) THEN obj.lane ELSE 0

\* The charts played by the model: time-ordered object lists ending with End,
\* and the #RANK of the chart.
Charts == <<
    [rank |-> 2, objs |-> << Visible(1, 1), Visible(1, 3), End(6) >>],
    [rank |-> 2, objs |-> << LNStart(1, 1), LNDone(1, 3), Visible(1, 4), End(6) >>],
    [rank |-> 2, objs |-> << BGM(0), Visible(1, 1), Bomb(1, 2, GaugeDamage(500)),
                             SetBPM(6, 0), Visible(1, 6), End(7) >>],
    [rank |-> 2, objs |-> << LNStart(1, 1), LNDone(1, 3), End(4) >>],
    [rank |-> 2, objs |-> << Visible(1, 1), SetBPM(4, 0), End(5) >>],
    [rank |-> 2, objs |-> << BGM(0), Visible(1, 1), Visible(1, 2), BGM(5),
                             Bomb(1, 5, GaugeDamage(500)), SetBPM(6, 0), Visible(1, 6),
                             End(7) >>],
    [rank |-> 0, objs |-> << LNStart(1, 1), LNDone(1, 4), End(5) >>],
    [rank |-> 0, objs |-> << LNStart(1, 1), Bomb(1, 3, GaugeDamage(250)), LNDone(1, 4),
                             End(5) >>],
    [rank |-> 2, objs |-> << Visible(1, 1), Bomb(1, 2, GaugeDamage(1000)),
                             Bomb(1, 3, InstantDeath), Bomb(1, 4, GaugeDamage(250)),
                             End(5) >>],
    [rank |-> 2, objs |-> << BGM(0), End(12) >>],
    [rank |-> 2, objs |-> << BGM(0), Visible(1, 1), SetBPM(2, -1), Visible(1, Never),
                             End(Never) >>],
    [rank |-> 5, objs |-> << Visible(1, 6), End(8) >>],
    [rank |-> 2, objs |-> << Visible(1, 5), End(8) >>],
    [rank |-> 0, objs |-> << LNStart(1, 1), LNDone(1, 2), LNStart(1, 3), LNDone(1, 6),
                             End(7) >>],
    [rank |-> 2, objs |-> << BGM(0), Visible(1, 1), SetBPM(2, -1), SetBPM(2, 1),
                             Visible(1, 4), End(6) >>]
>>

Objs(c) == Charts[c].objs
NObjs(c) == Len(Objs(c))
\* TimelineInfo::nnotes: the Visible and LNStart objects
NNotes(c) == Cardinality({i \in 1 .. NObjs(c) : Objs(c)[i].type \in {"Visible", "LNStart"}})

----------------------------------------------------------------------------
(* Options (ui/options): is_autoplay, is_exclusive *)

Modes == {"Play", "AutoPlay", "Exclusive"}
is_autoplay(mode) == mode # "Play"
is_exclusive(mode) == mode = "Exclusive"

----------------------------------------------------------------------------
(* Player::new, player.rs:261-302.  cur, checked and thru are pointers; a   *)
(* pointer is the index of the next object (NObjs + 1 past the End) and, for *)
(* cur, its time.  verdicts and trace are history variables that the code   *)
(* does not have: the number of grades issued for each object, one entry    *)
(* for each event dequeued by the last tick, the events that tick polled,   *)
(* the number of beeps it played, the hold starts whose hold a bomb has      *)
(* dropped, the parts of the last tick that acted, in the order in which    *)
(* they did, and what the escape sweep of the last tick did: whether it ran, *)
(* the objects it was handed, the object it broke at and where it left       *)
(* checked.                                                                  *)

NoSweep == [ran |-> FALSE, yielded |-> <<>>, brokeAt |-> 0, checked |-> 0]

NewPlayer(c, nnotes, initplayspeed) ==
    [ nograding |-> [i \in 1 .. NObjs(c) |-> FALSE],
      playspeed |-> initplayspeed,
      targetspeed |-> NoSpeed,
      bpm |-> 1,
      reverse |-> NoPointer,
      now |-> 0,
      cur |-> [index |-> 1, time |-> 0],
      checked |-> 1,
      thru |-> [l \in Lanes |-> NoPointer],
      gradefactor |-> 6 - Min(Charts[c].rank, 5),
      nnotes |-> nnotes,
      lastgrade |-> <<>>,
      gradecounts |-> [g \in Grades |-> 0],
      lastcombo |-> 0,
      bestcombo |-> 0,
      score |-> 0,
      gauge |-> (MAXGAUGE * 500) \div 1000,
      keymultiplicity |-> [l \in Lanes |-> 0],
      joystate |-> [l \in Lanes |-> Neutral],
      verdicts |-> [i \in 1 .. NObjs(c) |-> 0],
      trace |-> <<>>,
      polled |-> <<>>,
      beeps |-> 0,
      dropped |-> {},
      phases |-> <<>>,
      sweep |-> NoSweep ]

\* Player::key_pressed, player.rs:306-309
key_pressed(p, lane) == p.keymultiplicity[lane] > 0 \/ p.joystate[lane] # Neutral

\* Player::nominal_playspeed, player.rs:313-315
nominal_playspeed(p) == IF p.targetspeed # NoSpeed THEN p.targetspeed ELSE p.playspeed

\* (a.vtime - b.vtime) * gradefactor, in 25 microseconds; gradefactor is in quarters
Dist(p, ta, tb) == ((ta - tb) * TimeUnit * p.gradefactor) \div 4

\* the history variable: one more grade issued for object i
Verdict(p, i) == [p EXCEPT !.verdicts[i] = @ + 1]

\* the history variable: a part of tick acts (an object effect, a MISS of the escape
\* sweep, the handling of a dequeued event, the damage of a bomb); consecutive acts
\* of one part are kept once
Phase(p, part) ==
    IF p.phases # <<>> /\ p.phases[Len(p.phases)] = part THEN p
    ELSE [p EXCEPT !.phases = Append(@, part)]

----------------------------------------------------------------------------
(* Pointer operations (format/pointer) *)

\* The predicate handed to a search is given as the set S of the indices of the
\* objects that satisfy it.

\* find_next_of_type from index `from`: the first matching index at or after it, or NoPointer
FindNext(S, from) ==
    LET T == {j \in S : j >= from}
    IN IF T = {} THEN NoPointer ELSE CHOOSE j \in T : \A k \in T : j <= k

\* find_previous_of_type from index `from`: the last matching index before it, or NoPointer
FindPrevious(S, from) ==
    LET T == {j \in S : j < from}
    IN IF T = {} THEN NoPointer ELSE CHOOSE j \in T : \A k \in T : j >= k

\* find_closest_of_type(VirtualTime, pred) from the pointer cur: the nearer in time of
\* the previous and the next match; tb decides between two equidistant ones
FindClosest(c, S, cur, tb) ==
    LET prev == FindPrevious(S, cur.index)
        next == FindNext(S, cur.index)
    IN CASE prev = NoPointer -> next
         [] next = NoPointer -> prev
         [] OTHER ->
              LET dp == Abs(Objs(c)[prev].time - cur.time)
                  dn == Abs(Objs(c)[next].time - cur.time)
              IN IF dp < dn THEN prev
                 ELSE IF dn < dp THEN next
                 ELSE IF tb = "prev" THEN prev ELSE next

----------------------------------------------------------------------------
(* Player::tick, player.rs:432-696.  Each phase works on the record p, in    *)
(* which cur, checked and thru are the local copies made at player.rs:449-451; *)
(* a tick that returns early leaves the fields of self as they were.        *)
(* The state handed from one step to the next is bound as q \in {..}, so    *)
(* that it is computed once: CHOOSE r \in {F(q) : q \in {e}} : TRUE is F(e). *)

\* (delta * 0.1), rounded towards zero
Tenth(delta) == IF delta >= 0 THEN delta \div 10 ELSE -((-delta) \div 10)

\* the easing without the snap
SpeedEasingNoSnap(p) ==
    IF p.targetspeed = NoSpeed THEN p
    ELSE [p EXCEPT !.playspeed = p.playspeed + Tenth(p.targetspeed - p.playspeed)]

\* the smooth change of the play speed, player.rs:436-446
SpeedEasing(p) ==
    IF p.targetspeed = NoSpeed THEN p
    ELSE LET delta == p.targetspeed - p.playspeed
         IN IF Abs(delta) < SPEED_TOLERANCE
            THEN [p EXCEPT !.playspeed = p.targetspeed, !.targetspeed = NoSpeed]
            ELSE [p EXCEPT !.playspeed = p.playspeed + Tenth(delta)]

\* advancing cur with mut_until(ActualTime, ..) and applying the object-like effects,
\* player.rs:463-489, from object i on; stop is the `return false` of SetBPM(0)
RECURSIVE AdvanceFrom(_, _, _, _, _)
AdvanceFrom(c, mode, p, i, curtime) ==
    IF i > NObjs(c) \/ Objs(c)[i].time > curtime
    THEN [p |-> [p EXCEPT !.cur = [index |-> i, time |-> curtime]], stop |-> FALSE]
    ELSE LET obj == Objs(c)[i]
         IN CASE obj.type = "SetBPM" ->
                   IF obj.bpm = 0
                   THEN [p |-> [Phase(p, "effect") EXCEPT !.bpm = obj.bpm], stop |-> TRUE]
                   ELSE IF obj.bpm < 0
                   THEN AdvanceFrom(c, mode,
                                    [Phase(p, "effect") EXCEPT !.bpm = obj.bpm,
                                                               !.reverse = i],
                                    i + 1, curtime)
                   ELSE AdvanceFrom(c, mode, [Phase(p, "effect") EXCEPT !.bpm = obj.bpm],
                                    i + 1, curtime)
              [] obj.type \in {"Visible", "LNStart"} /\ is_autoplay(mode) ->
                   CHOOSE r \in { AdvanceFrom(c, mode, q, i + 1, curtime) :
                                    q \in {Verdict(update_grade_from_distance(
                                                       Phase(p, "effect"), 0), i)} } :
                       TRUE
              [] obj.type = "BGM" ->
                   AdvanceFrom(c, mode, Phase(p, "effect"), i + 1, curtime)
              [] OTHER -> AdvanceFrom(c, mode, p, i + 1, curtime)

\* Pointer::seek(ActualPos, ..) to the position pos: the index moves to the first
\* object not before pos and stays within the objects, the location is that of pos.
\* With the BPM of 1 measure per time unit and no scroll stop, the position and
\* the virtual position of a point before the negative BPM are its time.
seek(c, cur, pos) ==
    [index |-> 1 + Cardinality({i \in 1 .. NObjs(c) : Objs(c)[i].time < pos}),
     time |-> pos]

\* the reverse motion, player.rs:456-460: cur moves to the position that the negative
\* BPM gives for the time elapsed since the reverse marker
ReverseMotion(c, p, curtime) ==
    LET newpos == Objs(c)[p.reverse].time + p.bpm * (curtime - Objs(c)[p.reverse].time)
    IN [p |-> [p EXCEPT !.cur = seek(c, p.cur, newpos)], stop |-> FALSE]

\* the assertion of the reverse motion, player.rs:457
ReverseAsserted(c, p, curtime) == p.bpm < 0 /\ curtime >= Objs(c)[p.reverse].time

\* moving cur to the time curtime, player.rs:455-491; a failed assertion ends the
\* tick, and the play, where it stands
Advance(c, mode, p, curtime) ==
    IF p.reverse # NoPointer
    THEN IF ReverseAsserted(c, p, curtime) THEN ReverseMotion(c, p, curtime)
         ELSE [p |-> p, stop |-> TRUE]
    ELSE AdvanceFrom(c, mode, p, p.cur.index, curtime)

\* the objects the escape sweep grades with MISS, player.rs:499-507
MissableNotesOnly(c, p, i) ==
    /\ ~p.nograding[i]
    /\ object_lane(Objs(c)[i]) # 0
    /\ Objs(c)[i].type \in {"Visible", "LNStart"}

Missable(c, p, i) ==
    /\ ~p.nograding[i]
    /\ object_lane(Objs(c)[i]) # 0
    /\ \/ Objs(c)[i].type \in {"Visible", "LNStart"}
       \/ is_lndone(Objs(c)[i]) /\ p.thru[Objs(c)[i].lane] # NoPointer

\* the history variable: the sweep is handed object i
Yielded(p, i) == [p EXCEPT !.sweep.yielded = Append(@, i)]

\* the history variable: the sweep ends and leaves checked at i, having broken at
\* object b (NoPointer when it was drained)
SweepDone(p, i, b) ==
    [p EXCEPT !.checked = i, !.sweep.ran = TRUE, !.sweep.brokeAt = b, !.sweep.checked = i]

\* a partial drain that leaves the pointer after the last yielded element
PartialDrainPast(i) == i + 1

\* checked.mut_upto(&cur) left by a break: the pointer stands at the last yielded
\* element, the object with index i
PartialDrain(i) == i

\* a sweep that moves checked and grades nothing
SweepFromUngraded(c, p, i) ==
    LET behind == {j \in i .. NObjs(c) :
                      j < p.cur.index /\ Dist(p, p.cur.time, Objs(c)[j].time) >= BAD_CUTOFF}
    IN [p EXCEPT !.checked = i + Cardinality(behind)]

\* the escape sweep over checked.mut_upto(&cur), player.rs:495-514, from object i on
RECURSIVE SweepFrom(_, _, _)
SweepFrom(c, p, i) ==
    IF i >= p.cur.index THEN SweepDone(p, p.cur.index, NoPointer)
    ELSE IF Dist(p, p.cur.time, Objs(c)[i].time) < BAD_CUTOFF
         THEN SweepDone(Yielded(p, i), PartialDrain(i), i)
         ELSE IF Missable(c, p, i)
              THEN CHOOSE r \in { SweepFrom(c, q, i + 1) :
                                     q \in {[Verdict(update_grade_to_miss(
                                                         Phase(Yielded(p, i), "sweep")), i)
                                               EXCEPT !.thru[Objs(c)[i].lane] = NoPointer]} } :
                       TRUE
              ELSE SweepFrom(c, Yielded(p, i), i + 1)

----------------------------------------------------------------------------
(* Inputs and the key map, engine/input.rs *)

\* the actual inputs of the model: two keys and a joystick axis for the lane, the
\* two speed keys and a joystick axis for the speed, a key bound to nothing, the
\* escape key, and the quit event of the window
Keys == {"KeyA", "KeyB"}
Axes == {"Axis"}
SpeedKeys == {"KeyF3", "KeyF4"}
SpeedAxes == {"AxisUp"}
UnboundKeys == {"KeyU"}
AllKeys == Keys \cup SpeedKeys \cup UnboundKeys \cup {"Escape"}
AllAxes == Axes \cup SpeedAxes
Inputs == AllKeys \cup AllAxes \cup {"Quit"}

\* the events of the model: key down and up, axis motion beyond 3200 either way or
\* back, and the quit event
Events ==
    [input : AllKeys, state : {Positive, Neutral}]
      \cup [input : AllAxes, state : InputStates]
      \cup [input : {"Quit"}, state : {Positive}]

\* Input::from_event, input.rs:42-62: the quit event and any event of the escape
\* key are the quit input in the positive state
from_event(ev) ==
    IF ev.input \in {"Quit", "Escape"} THEN [input |-> "Quit", state |-> Positive] ELSE ev

\* KeyMap: both keys and the axis are bound to lane 1, as "left shift%axis 3" binds a
\* key and an axis to one lane in the default of input.rs:122; F3 and F4 are the
\* speed keys of input.rs:162, and an axis is bound to the speed-up input as well.
\* The escape key is bound to the lane too: parse_input (input.rs:191-201) accepts
\* its name like that of any other key.
LaneInput(lane) == [kind |-> "Lane", lane |-> lane]
SpeedDownInput == [kind |-> "SpeedDown", lane |-> 0]
SpeedUpInput == [kind |-> "SpeedUp", lane |-> 0]
NoInput == [kind |-> "None", lane |-> 0]
keymap(input) ==
    CASE input \in Keys \cup Axes \cup {"Escape"} -> LaneInput(1)
      [] input = "KeyF3" -> SpeedDownInput
      [] input \in {"KeyF4", "AxisUp"} -> SpeedUpInput
      [] OTHER -> NoInput

----------------------------------------------------------------------------
(* The input loop of Player::tick, player.rs:518-657 *)

\* the closure is_unpressed, player.rs:544-558; yields the updated state and the flag
is_unpressedUnguarded(p, lane, continuous, state) ==
    IF state = Neutral \/ (continuous /\ p.joystate[lane] # state)
    THEN IF continuous
         THEN [p |-> [p EXCEPT !.joystate[lane] = state], r |-> TRUE]
         ELSE LET m == p.keymultiplicity[lane] - 1
              IN [p |-> [p EXCEPT !.keymultiplicity[lane] = m], r |-> (m = 0)]
    ELSE [p |-> p, r |-> FALSE]

is_unpressedNeutralOnly(p, lane, continuous, state) ==
    IF state = Neutral
    THEN IF continuous
         THEN [p |-> [p EXCEPT !.joystate[lane] = state], r |-> TRUE]
         ELSE LET m == IF p.keymultiplicity[lane] > 0
                       THEN p.keymultiplicity[lane] - 1
                       ELSE p.keymultiplicity[lane]
              IN [p |-> [p EXCEPT !.keymultiplicity[lane] = m], r |-> (m = 0)]
    ELSE [p |-> p, r |-> FALSE]

is_unpressed(p, lane, continuous, state) ==
    IF state = Neutral \/ (continuous /\ p.joystate[lane] # state)
    THEN IF continuous
         THEN [p |-> [p EXCEPT !.joystate[lane] = state], r |-> TRUE]
         ELSE LET m == IF p.keymultiplicity[lane] > 0
                       THEN p.keymultiplicity[lane] - 1
                       ELSE p.keymultiplicity[lane]
              IN [p |-> [p EXCEPT !.keymultiplicity[lane] = m], r |-> (m = 0)]
    ELSE [p |-> p, r |-> FALSE]

\* the closure is_pressed, player.rs:563-575
is_pressedAlways(p, lane, continuous, state) ==
    IF state # Neutral
    THEN IF continuous
         THEN [p |-> [p EXCEPT !.joystate[lane] = state], r |-> TRUE]
         ELSE LET m == p.keymultiplicity[lane] + 1
              IN [p |-> [p EXCEPT !.keymultiplicity[lane] = m], r |-> TRUE]
    ELSE [p |-> p, r |-> FALSE]

is_pressed(p, lane, continuous, state) ==
    IF state # Neutral
    THEN IF continuous
         THEN [p |-> [p EXCEPT !.joystate[lane] = state], r |-> TRUE]
         ELSE LET m == p.keymultiplicity[lane] + 1
              IN [p |-> [p EXCEPT !.keymultiplicity[lane] = m], r |-> (m = 1)]
    ELSE [p |-> p, r |-> FALSE]

\* the closure process_unpress, player.rs:577-594
process_unpressKeepsHold(c, p, lane) ==
    LET IsDone == {k \in 1 .. NObjs(c) :
                      object_lane(Objs(c)[k]) = lane /\ is_lndone(Objs(c)[k])}
        j == IF p.thru[lane] = NoPointer THEN NoPointer
             ELSE FindNext(IsDone, p.thru[lane])
    IN IF j = NoPointer THEN [p EXCEPT !.thru[lane] = NoPointer]
       ELSE IF Abs(Dist(p, Objs(c)[j].time, p.cur.time)) < BAD_CUTOFF
            THEN [p EXCEPT !.nograding[j] = TRUE]
            ELSE [Verdict(update_grade_to_miss(p), j) EXCEPT !.thru[lane] = NoPointer]

process_unpress(c, p, lane) ==
    LET IsDone == {k \in 1 .. NObjs(c) :
                      object_lane(Objs(c)[k]) = lane /\ is_lndone(Objs(c)[k])}
        j == IF p.thru[lane] = NoPointer THEN NoPointer
             ELSE FindNext(IsDone, p.thru[lane])
    IN IF j = NoPointer THEN [p EXCEPT !.thru[lane] = NoPointer]
       ELSE IF Abs(Dist(p, Objs(c)[j].time, p.cur.time)) < BAD_CUTOFF
            THEN [p EXCEPT !.nograding[j] = TRUE, !.thru[lane] = NoPointer]
            ELSE [Verdict(update_grade_to_miss(p), j) EXCEPT !.thru[lane] = NoPointer]

\* the condition under which process_press grades the closest gradable object j,
\* player.rs:615
PressGradesRegardless(c, p, j) == ~is_lndone(Objs(c)[j])

PressGrades(c, p, j) == j >= p.checked /\ ~p.nograding[j] /\ ~is_lndone(Objs(c)[j])

\* the closure process_press, player.rs:596-625 (the key sound is not modelled)
process_pressPastCutoff(c, p, lane, tb) ==
    LET IsGradable == {k \in 1 .. NObjs(c) :
                          object_lane(Objs(c)[k]) = lane /\ is_gradable(Objs(c)[k])}
        j == FindClosest(c, IsGradable, p.cur, tb)
    IN IF j # NoPointer /\ PressGrades(c, p, j)
       THEN LET dist == Dist(p, Objs(c)[j].time, p.cur.time)
            IN CHOOSE r \in { Verdict(update_grade_from_distance(q, dist), j) :
                                 q \in {[p EXCEPT
                                           !.thru[lane] = IF is_lnstart(Objs(c)[j])
                                                          THEN j ELSE @,
                                           !.nograding[j] = TRUE]} } :
                   TRUE
       ELSE p

process_press(c, p, lane, tb) ==
    LET IsGradable == {k \in 1 .. NObjs(c) :
                          object_lane(Objs(c)[k]) = lane /\ is_gradable(Objs(c)[k])}
        j == FindClosest(c, IsGradable, p.cur, tb)
    IN IF j # NoPointer /\ PressGrades(c, p, j)
       THEN LET dist == Dist(p, Objs(c)[j].time, p.cur.time)
            IN IF Abs(dist) < BAD_CUTOFF
               THEN CHOOSE r \in { Verdict(update_grade_from_distance(q, dist), j) :
                                      q \in {[p EXCEPT
                                                !.thru[lane] = IF is_lnstart(Objs(c)[j])
                                                               THEN j ELSE @,
                                                !.nograding[j] = TRUE]} } :
                        TRUE
               ELSE p
       ELSE p

\* the number of grades issued so far
NGraded(p) == p.gradecounts[MISS] + p.gradecounts[BAD] + p.gradecounts[GOOD]
                  + p.gradecounts[GREAT] + p.gradecounts[COOL]

\* the play state an event can act on
PlayState(p) ==
    << p.keymultiplicity, p.joystate, p.thru, p.nograding, p.gradecounts, p.lastgrade,
       p.score, p.lastcombo, p.bestcombo, p.gauge, p.playspeed, p.targetspeed, p.beeps,
       p.verdicts >>

\* the history entry of one dequeued event: the event, whether it reached is_unpressed
\* and is_pressed, the lane state before and after it, the flags the two reported,
\* the closures called, the nominal and target speed before and after it, whether
\* it beeped and whether it changed anything of the play state
TraceEntry(ev, lane, dispatched, before, after, unpressed, pressed, calls) ==
    [ input |-> ev.input, state |-> ev.state, lane |-> lane, dispatched |-> dispatched,
      nominalBefore |-> nominal_playspeed(before),
      targetBefore |-> before.targetspeed, targetAfter |-> after.targetspeed,
      beeped |-> after.beeps > before.beeps,
      changed |-> PlayState(before) # PlayState(after),
      multBefore |-> IF lane = 0 THEN 0 ELSE before.keymultiplicity[lane],
      multAfter |-> IF lane = 0 THEN 0 ELSE after.keymultiplicity[lane],
      joyBefore |-> IF lane = 0 THEN Neutral ELSE before.joystate[lane],
      joyAfter |-> IF lane = 0 THEN Neutral ELSE after.joystate[lane],
      thruBefore |-> IF lane = 0 THEN NoPointer ELSE before.thru[lane],
      thruAfter |-> IF lane = 0 THEN NoPointer ELSE after.thru[lane],
      gradedBefore |-> NGraded(before), gradedAfter |-> NGraded(after),
      unpressed |-> unpressed, pressed |-> pressed, calls |-> calls,
      nearest |-> {}, hit |-> {}, released |-> {}, missed |-> {},
      thruMid |-> IF lane = 0 THEN NoPointer ELSE before.thru[lane], gradingKept |-> TRUE,
      pressCounts |-> [g \in MISS .. COOL |-> 0], pressKept |-> TRUE ]

Logged(p, entry) == [p EXCEPT !.trace = Append(p.trace, entry)]

\* the objects of the lane a press may grade, as the state p has them: the Visible
\* and LNStart objects not yet resolved, at or after checked, whose scaled distance
\* from cur is below the BAD cutoff
Eligible(c, p, lane) ==
    {i \in 1 .. NObjs(c) :
        /\ object_lane(Objs(c)[i]) = lane
        /\ Objs(c)[i].type \in {"Visible", "LNStart"}
        /\ ~p.nograding[i]
        /\ i >= p.checked
        /\ Abs(Dist(p, Objs(c)[i].time, p.cur.time)) < BAD_CUTOFF}

\* the history entry of a lane input also keeps, for the press half, the change of
\* every grade count and whether the grading state and the resolved flags stayed

\* those of them nearest to cur
Nearest(c, p, lane) ==
    {i \in Eligible(c, p, lane) :
        \A j \in Eligible(c, p, lane) :
            Abs(Objs(c)[i].time - p.cur.time) <= Abs(Objs(c)[j].time - p.cur.time)}

\* the objects graded between the states p and q
GradedBetween(c, p, q) == {i \in 1 .. NObjs(c) : q.verdicts[i] > p.verdicts[i]}

\* the objects flagged resolved between the states p and q
FlaggedBetween(c, p, q) == {i \in 1 .. NObjs(c) : q.nograding[i] /\ ~p.nograding[i]}

\* what a grade event changes
GradingState(p) ==
    << p.gradecounts, p.lastgrade, p.score, p.lastcombo, p.bestcombo, p.gauge >>

\* the history entry of a lane input: p0 is the state before the event, u and d the
\* results of is_unpressed and is_pressed, p1 the state after the unpress half, p
\* the state after the event.  For a press the entry keeps the nearest objects the
\* press could grade and those it graded; for an unpress, the objects it flagged
\* and those it graded, the hold reference it left and whether it left the grading
\* state alone.
DispatchLogged(c, ev, lane, p0, u, p1, d, p) ==
    Logged(p, [TraceEntry(ev, lane, TRUE, p0, p, u.r, d.r,
                          (IF u.r THEN <<"unpress">> ELSE <<>>)
                              \o (IF d.r THEN <<"press">> ELSE <<>>))
                 EXCEPT !.nearest = IF d.r THEN Nearest(c, d.p, lane) ELSE {},
                        !.hit = IF d.r THEN GradedBetween(c, d.p, p) ELSE {},
                        !.released = IF u.r THEN FlaggedBetween(c, u.p, p1) ELSE {},
                        !.missed = IF u.r THEN GradedBetween(c, u.p, p1) ELSE {},
                        !.thruMid = p1.thru[lane],
                        !.gradingKept = GradingState(u.p) = GradingState(p1),
                        !.pressCounts = [g \in MISS .. COOL |->
                                            p.gradecounts[g] - d.p.gradecounts[g]],
                        !.pressKept = /\ GradingState(d.p) = GradingState(p)
                                      /\ d.p.nograding = p.nograding])

\* the second half of the dispatch, player.rs:649-651: p0 is the state before the
\* event, u the result of is_unpressed, p1 the state after the unpress half
PressHalf(c, p0, p1, u, ev, lane, tb) ==
    CHOOSE r \in { DispatchLogged(c, ev, lane, p0, u, p1, d,
                                  IF d.r THEN process_press(c, d.p, lane, tb) ELSE d.p) :
                     d \in {is_pressed(p1, lane, ev.input \in Axes, ev.state)} } : TRUE

\* the dispatch of a lane input, player.rs:644-653
LaneDispatchInAutoplay(c, mode, p, ev, lane, tb) ==
    CHOOSE r \in
        UNION { { PressHalf(c, p, p1, u, ev, lane, tb) :
                     p1 \in {IF u.r THEN process_unpress(c, u.p, lane) ELSE u.p} } :
                  u \in {is_unpressed(p, lane, ev.input \in Axes, ev.state)} } : TRUE

LaneDispatch(c, mode, p, ev, lane, tb) ==
    IF is_autoplay(mode)
    THEN Logged(p, TraceEntry(ev, lane, FALSE, p, p, FALSE, FALSE, <<>>))
    ELSE CHOOSE r \in
             UNION { { PressHalf(c, p, p1, u, ev, lane, tb) :
                          p1 \in {IF u.r THEN process_unpress(c, u.p, lane) ELSE u.p} } :
                       u \in {is_unpressed(p, lane, ev.input \in Axes, ev.state)} } : TRUE

\* the speed inputs, player.rs:628-643: the new target speed and the beep
SpeedDispatch(p, vkey, state) ==
    IF state = Neutral THEN p
    ELSE LET current == nominal_playspeed(p)
             newspeed == IF vkey.kind = "SpeedDown" THEN next_speed_mark(current)
                         ELSE previous_speed_mark(current)
         IN IF newspeed = NoSpeed THEN p
            ELSE [p EXCEPT !.targetspeed = newspeed, !.beeps = @ + 1]

\* the events the input loop skips with `continue`, player.rs:530-539: those the key
\* map does not have, and all of them in the exclusive mode
SkippedUnmappedOnly(mode, vkey) == vkey.kind = "None"

Skipped(mode, vkey) == vkey.kind = "None" \/ is_exclusive(mode)

\* the match on the virtual input, player.rs:627-654
Dispatch(c, mode, p, ev, vkey, tb) ==
    IF vkey.kind = "Lane" THEN LaneDispatch(c, mode, p, ev, vkey.lane, tb)
    ELSE CHOOSE r \in { Logged(q, TraceEntry(ev, 0, FALSE, p, q, FALSE, FALSE, <<>>)) :
                          q \in {SpeedDispatch(p, vkey, ev.state)} } : TRUE

\* one round of the input loop, player.rs:522-656; quit is the `return false`
ProcessEvent(c, mode, p0, ev, tb) ==
    LET p == Phase(p0, "input")
    IN IF from_event(ev).input = "Quit"
       THEN [p |-> Logged(p, TraceEntry(ev, 0, FALSE, p, p, FALSE, FALSE, <<>>)),
             quit |-> TRUE]
       ELSE IF Skipped(mode, keymap(ev.input))
            THEN [p |-> Logged(p, TraceEntry(ev, 0, FALSE, p, p, FALSE, FALSE, <<>>)),
                  quit |-> FALSE]
            ELSE [p |-> Dispatch(c, mode, p, ev, keymap(ev.input), tb), quit |-> FALSE]

\* the input loop over the polled events evs, player.rs:518-657
RECURSIVE ProcessEventsPastQuit(_, _, _, _, _)
ProcessEventsPastQuit(c, mode, p, evs, tb) ==
    IF evs = <<>> THEN [p |-> p, quit |-> FALSE]
    ELSE CHOOSE x \in
             { IF Tail(evs) = <<>> THEN r
               ELSE [ProcessEventsPastQuit(c, mode, r.p, Tail(evs), tb)
                        EXCEPT !.quit = @ \/ r.quit] :
                 r \in {ProcessEvent(c, mode, p, Head(evs), tb)} } : TRUE

RECURSIVE ProcessEvents(_, _, _, _, _)
ProcessEvents(c, mode, p, evs, tb) ==
    IF evs = <<>> THEN [p |-> p, quit |-> FALSE]
    ELSE CHOOSE x \in { IF r.quit THEN r ELSE ProcessEvents(c, mode, r.p, Tail(evs), tb) :
                          r \in {ProcessEvent(c, mode, p, Head(evs), tb)} } : TRUE

\* the history variable: the hold of the lane, if open, is dropped by a bomb
Dropped(p, lane) ==
    IF p.thru[lane] = NoPointer THEN p ELSE [p EXCEPT !.dropped = @ \cup {p.thru[lane]}]

\* a bomb hitting a pressed lane, player.rs:664-669: the hold reference is cleared
\* and the damage of the bomb applied
BombHitKeepsHold(c, p, i) ==
    Verdict(update_grade_from_damage(Dropped(Phase(p, "bomb"), Objs(c)[i].lane),
                                     Objs(c)[i].damage), i)

BombHit(c, p, i) ==
    Verdict(update_grade_from_damage(
                [Dropped(Phase(p, "bomb"), Objs(c)[i].lane)
                    EXCEPT !.thru[Objs(c)[i].lane] = NoPointer],
                Objs(c)[i].damage), i)

\* the bomb sweep over prev.upto(&cur), player.rs:661-677, from object i on;
\* dead is the `return false` of the instant death
\* a bomb sweep that looks at the first object of the range only
BombSweepFirstOnly(c, p, i) ==
    IF i < p.cur.index /\ Objs(c)[i].type = "Bomb" /\ key_pressed(p, Objs(c)[i].lane)
    THEN [p |-> BombHit(c, p, i), dead |-> ~KeepGoing(Objs(c)[i].damage)]
    ELSE [p |-> p, dead |-> FALSE]

\* the bomb sweep over prev.upto(&cur), player.rs:661-677, from object i on
RECURSIVE BombSweep(_, _, _)
BombSweep(c, p, i) ==
    IF i >= p.cur.index THEN [p |-> p, dead |-> FALSE]
    ELSE IF Objs(c)[i].type = "Bomb" /\ key_pressed(p, Objs(c)[i].lane)
         THEN CHOOSE r \in
                  { IF KeepGoing(Objs(c)[i].damage) THEN BombSweep(c, q, i + 1)
                    ELSE [p |-> q, dead |-> TRUE] :
                      q \in {BombHit(c, p, i)} } : TRUE
         ELSE BombSweep(c, p, i + 1)

\* what an early return leaves in self: cur, checked and thru are not written back
Uncommitted(p0, p) == [p EXCEPT !.cur = p0.cur, !.checked = p0.checked, !.thru = p0.thru]

\* the continuation without the case of the negative BPM
KeepPlayingInReverse(c, p, playing) ==
    IF p.cur.index = NObjs(c) + 1 THEN playing ELSE TRUE

\* whether to keep playing, player.rs:684-695
KeepPlaying(c, p, playing) ==
    IF p.cur.index = NObjs(c) + 1 THEN playing
    ELSE IF p.cur.time < originoffset THEN FALSE
    ELSE TRUE

\* the end of tick, player.rs:659-695: b is the result of the bomb sweep
TickEnd(c, p0, b, playing) ==
    IF b.dead
    THEN [p |-> [Uncommitted(p0, b.p) EXCEPT
                    !.cur = [index |-> NObjs(c) + 1, time |-> Objs(c)[NObjs(c)].time]],
          ret |-> FALSE]
    ELSE [p |-> b.p, ret |-> KeepPlaying(c, b.p, playing)]

\* tick from the bomb sweep on: e is the result of the input loop
TickBombs(c, mode, p0, e, playing) ==
    IF e.quit THEN [p |-> Uncommitted(p0, e.p), ret |-> FALSE]
    ELSE CHOOSE r \in { TickEnd(c, p0, b, playing) :
                          b \in {IF is_autoplay(mode) THEN [p |-> e.p, dead |-> FALSE]
                                 ELSE BombSweep(c, e.p, p0.cur.index)} } : TRUE

\* the bomb sweep ahead of the input loop
TickInputsAfterBombs(c, mode, p0, ps, evs, playing, tb) ==
    LET b == IF is_autoplay(mode) THEN [p |-> ps, dead |-> FALSE]
             ELSE BombSweep(c, ps, p0.cur.index)
        e == ProcessEvents(c, mode, b.p, evs, tb)
    IN IF b.dead THEN TickEnd(c, p0, b, playing)
       ELSE IF e.quit THEN [p |-> Uncommitted(p0, e.p), ret |-> FALSE]
       ELSE [p |-> e.p, ret |-> KeepPlaying(c, e.p, playing)]

\* tick from the input loop on: ps is the state after the escape sweep
TickInputs(c, mode, p0, ps, evs, playing, tb) ==
    CHOOSE r \in { TickBombs(c, mode, p0, e, playing) :
                     e \in {ProcessEvents(c, mode, ps, evs, tb)} } : TRUE

\* tick from the escape sweep on: a is the result of advancing cur
TickSweepThrough(c, mode, p0, a, evs, playing, tb) ==
    CHOOSE r \in { TickInputs(c, mode, p0, ps, evs, playing, tb) :
                     ps \in {IF is_autoplay(mode) THEN a.p
                             ELSE SweepFrom(c, a.p, a.p.checked)} } : TRUE

TickSweep(c, mode, p0, a, evs, playing, tb) ==
    IF a.stop THEN [p |-> Uncommitted(p0, a.p), ret |-> FALSE]
    ELSE CHOOSE r \in { TickInputs(c, mode, p0, ps, evs, playing, tb) :
                          ps \in {IF is_autoplay(mode) THEN a.p
                                  ELSE SweepFrom(c, a.p, a.p.checked)} } : TRUE

\* Player::tick at wall-clock time `now` with the polled events evs; playing tells
\* whether the mixer still plays a sound when the end of the chart is reached.
\* Yields the player after the call and the value returned.
tick(c, mode, p0, now, evs, playing, tb) ==
    CHOOSE r \in { TickSweep(c, mode, p0, a, evs, playing, tb) :
                     a \in {Advance(c, mode,
                                    [SpeedEasing(p0) EXCEPT !.now = now, !.trace = <<>>,
                                                            !.polled = evs, !.beeps = 0,
                                                            !.phases = <<>>,
                                                            !.sweep = NoSweep],
                                    now)} } : TRUE

----------------------------------------------------------------------------
(* The play: the main loop calls tick while it returns true                 *)
(* (sonorous.rs:217, ui/playing.rs:315)                                     *)

\* the events the devices of dev can produce when the keys of h are held down
LegalEvents(dev, h) ==
    {e \in Events : /\ e.input \in dev
                    /\ \/ e.input \notin AllKeys
                       \/ e.state = Positive /\ e.input \notin h
                       \/ e.state = Neutral /\ e.input \in h}

HeldAfterEvent(h, e) ==
    IF e.input \notin AllKeys THEN h
    ELSE IF e.state = Positive THEN h \cup {e.input} ELSE h \ {e.input}

RECURSIVE HeldAfter(_, _)
HeldAfter(h, evs) ==
    IF evs = <<>> THEN h ELSE HeldAfter(HeldAfterEvent(h, Head(evs)), Tail(evs))

\* the event sequences of at most n events that can be polled in one tick
RECURSIVE LegalSeqs(_, _, _)
LegalSeqs(dev, h, n) ==
    IF n = 0 THEN {<<>>}
    ELSE {<<>>} \cup UNION { { <<e>> \o r :
                                 r \in LegalSeqs(dev, HeldAfterEvent(h, e), n - 1) }
                               : e \in LegalEvents(dev, h) }

\* the play speed of the options when none is asked for: 1.0
DefaultSpeed == 10000

NoCall == [op |-> "none", n |-> 0, dist |-> 0, damage |-> NoDamage,
           before |-> [lastcombo |-> 0, bestcombo |-> 0, gauge |-> 0],
           graded |-> {}, capped |-> FALSE, ret |-> TRUE]

\* the state after Player::new for one choice of the options, the chart, the keys
\* held down when the play starts, the devices in use, the rule for equidistant
\* objects and the play speed of the options
InitPlay(modes, charts, helds, devs, tbs, speeds) ==
    /\ opts \in modes
    /\ chartno \in charts
    /\ \E initplayspeed \in speeds :
          player = NewPlayer(chartno, NNotes(chartno), initplayspeed)
    /\ held \in helds
    /\ devices \in devs
    /\ running = TRUE
    /\ tiebreak \in tbs
    /\ lastcall = NoCall
    /\ SetupIdle

\* a play of any chart in any mode, with the key and the quit input and either
\* outcome of a tie in the closest-object search, or with the axis
Init ==
    \/ InitPlay(Modes, {1, 2, 3}, {{}}, {{"KeyA", "Quit"}}, {"prev", "next"},
                {DefaultSpeed})
    \/ InitPlay(Modes, {1, 2, 3}, {{}}, {{"Axis"}}, {"next"}, {DefaultSpeed})

\* PlayingScene::tick, ui/playing.rs:313-345: what the scene does with the value ret
\* returned by Player::tick; Replace moves on to the result screen, Pop leaves
\* without it.  find_next_of_type looks from cur onwards.
SceneCommand(c, mode, p, ret) ==
    IF ret THEN "Continue"
    ELSE IF is_autoplay(mode) THEN "Pop"
    ELSE IF \E i \in p.cur.index .. NObjs(c) : is_gradable(Objs(c)[i]) THEN "Pop"
    ELSE "Replace"

\* the end of the chart is within reach of a tick at time t
EndReached(c, t) == Objs(c)[NObjs(c)].time <= t

\* one call of tick by the main loop, dt time units after the last one, with at most
\* maxevents events polled
TickAfter(dt, maxevents) ==
    /\ \E playing \in (IF EndReached(chartno, player.now + dt) THEN BOOLEAN ELSE {TRUE}) :
         \E evs \in LegalSeqs(devices, held, maxevents) :
            \E r \in {tick(chartno, opts, player, player.now + dt, evs, playing,
                           tiebreak)} :
               /\ player' = r.p
               /\ running' = r.ret
               /\ held' = HeldAfter(held, evs)
    /\ UNCHANGED <<opts, chartno, devices, tiebreak, lastcall, setup>>

\* one call of tick by the main loop, with at most maxevents events polled
TickOf(maxevents) ==
    /\ running
    /\ player.now < MaxNow
    /\ \E dt \in 1 .. MaxDt : TickAfter(dt, maxevents)

Tick == TickOf(MaxEvents)

Next == Tick

Spec == Init /\ [][Next]_vars

\* the input mapping exercised with the two keys of the lane, or with a key and the
\* axis of the lane, on a chart with one long note (no two of its objects are ever
\* equidistant), a key possibly held down already when the play starts
InitInput ==
    InitPlay({"Play"}, {4}, {{}, {"KeyA"}}, {Keys, {"KeyA"} \cup Axes}, {"next"},
             {DefaultSpeed})

SpecInput == InitInput /\ [][Next]_vars

\* a tick that polls a burst of events
TickBurst == TickOf(MaxBurst)

NextBurst == TickBurst

\* a play in any mode, on a chart with a bomb and a BPM of 0, with the key of the lane and either
\* the quit event of the window or the escape key, several events polled per tick
InitQuit ==
    InitPlay(Modes, {6}, {{}}, {{"KeyA", "Quit"}, {"KeyA", "Escape"}}, {"next"},
             {DefaultSpeed})

SpecQuit == InitQuit /\ [][NextBurst]_vars

\* normal play of a chart of rank 0 (grade factor 1.5: the grading window is two
\* time units either way) with one long note, with or without a bomb inside it,
\* with one key of the lane
InitHold == InitPlay({"Play"}, {7, 8}, {{}}, {{"KeyA"}}, {"next"}, {DefaultSpeed})

SpecHold == InitHold /\ [][Next]_vars

\* normal play of a chart with an instant-death bomb between two other bombs, with
\* one key of the lane
InitDeath == InitPlay({"Play"}, {9}, {{}}, {{"KeyA"}}, {"next"}, {DefaultSpeed})

SpecDeath == InitDeath /\ [][Next]_vars

\* normal play of a chart whose only note is five units away from the start, and
\* of the chart with a long note followed by a note
InitPress == InitPlay({"Play"}, {2, 13}, {{}}, {{"KeyA"}}, {"next"}, {DefaultSpeed})

SpecPress == InitPress /\ [][Next]_vars

\* normal play of a chart with two long notes on one lane, the second starting one
\* unit after the end of the first, with one key of the lane
InitLongNotes == InitPlay({"Play"}, {14}, {{}}, {{"KeyA"}}, {"next"}, {DefaultSpeed})

SpecLongNotes == InitLongNotes /\ [][Next]_vars

\* all modes of a chart with a negative BPM alone and of a chart with a negative
\* and a positive BPM at the same time
InitRearm == InitPlay(Modes, {11, 15}, {{}}, {{"KeyA"}}, {"next"}, {DefaultSpeed})

SpecRearm == InitRearm /\ [][Next]_vars

\* normal play of a one-note chart of rank 5 (grade factor 0.25) and of a chart of
\* rank 2 (grade factor 1), with one key of the lane
InitRank == InitPlay({"Play"}, {1, 12}, {{}}, {{"KeyA"}}, {"next"}, {DefaultSpeed})

SpecRank == InitRank /\ [][Next]_vars

\* play speeds of the options: below the lowest mark, at it, within the tolerance of
\* it, between two marks, at the highest mark and above it
InitSpeeds == {500, 1000, 1005, 11000, 990000, 1200000}

\* the speed inputs and the inputs bound to nothing exercised in every mode, from
\* any of the play speeds of InitSpeeds, on a chart that a BPM of 0 ends early
InitSpeed ==
    InitPlay(Modes, {5}, {{}}, {SpeedKeys, SpeedAxes \cup UnboundKeys}, {"next"},
             InitSpeeds)

SpecSpeed == InitSpeed /\ [][Next]_vars

\* one frame of the main loop: the call of tick comes within the time unit of the
\* last one (get_ticks counts milliseconds) or later, up to the time MaxNow
TickFrame ==
    /\ running
    /\ \E dt \in 0 .. MaxDt :
         /\ player.now + dt <= MaxNow
         /\ TickAfter(dt, MaxEvents)

NextFrame == TickFrame

\* play speeds of the options from which one speed-down input leads to the lowest
\* mark: the mark above it, and a speed between the two
InitEaseSpeeds == {1500, 2000}

\* play and autoplay of a chart that outlasts MaxNow, with the speed-down key; the
\* main loop keeps calling tick while it returns true (ui/playing.rs:315)
InitEase ==
    InitPlay({"Play", "AutoPlay"}, {10}, {{}}, {{"KeyF3"}}, {"next"}, InitEaseSpeeds)

\* a play in any mode of a chart with a negative BPM, with the key of the lane and
\* the quit event; the wall clock advances between two calls of tick
InitReverse ==
    InitPlay(Modes, {11}, {{}}, {{"KeyA", "Quit"}}, {"next"}, {DefaultSpeed})

SpecReverse == InitReverse /\ [][Next]_vars /\ WF_vars(Tick)

SpecEase == InitEase /\ [][NextFrame]_vars /\ WF_vars(TickFrame)

----------------------------------------------------------------------------
(* The grading operations on their own: the public update_grade_from_distance, *)
(* update_grade_from_damage and update_grade_to_miss (player.rs:356-378)     *)
(* called in any order, starting from the player as it is after some MISS  *)
(* grades and a run of COOL grades.                                         *)

\* lengths of the opening run of COOL grades after which other calls are tried
WarmUps == {0, 48, 76, 99}
\* distances handed to update_grade_from_distance, around each cutoff and of both signs
Dists == {0, 575, 576, -576, 1919, 1920, -1920, 3359, 3360, -3360, 5759, 5760, -5760}
\* damage values of bombs
BombDamages == {GaugeDamage(0), GaugeDamage(5), GaugeDamage(1000), InstantDeath}

InitGrade ==
    /\ opts = "Play"
    /\ chartno = 1
    /\ player = NewPlayer(1, GradeNotes, DefaultSpeed)
    /\ held = {}
    /\ devices = {}
    /\ running = TRUE
    /\ tiebreak = "next"
    /\ lastcall = NoCall
    /\ SetupIdle

\* the record of a direct call: the operation and its input, the combo and gauge
\* before it, every (|dist|, grade) pair produced so far by update_grade_from_distance,
\* whether some call so far raised the gauge from within 1 of MAXGAUGE, and the
\* value that update_grade returned
Called(op, dist, damage, after) ==
    [ op |-> op, n |-> lastcall.n + 1, dist |-> dist, damage |-> damage,
      before |-> [lastcombo |-> player.lastcombo, bestcombo |-> player.bestcombo,
                  gauge |-> player.gauge],
      graded |-> IF op = "distance"
                 THEN lastcall.graded \cup {<<Abs(dist), after.lastgrade[1]>>}
                 ELSE lastcall.graded,
      capped |-> \/ lastcall.capped
                 \/ after.lastgrade[1] \in {GREAT, COOL} /\ player.gauge + 1 >= MAXGAUGE,
      ret |-> KeepGoing(damage) ]

\* one more MISS before the opening run of COOL grades
OpeningMiss ==
    /\ lastcall.n = 0
    /\ player.gradecounts[COOL] = 0
    /\ player.gradecounts[MISS] < MaxOpeningMiss
    /\ player' = update_grade_to_miss(player)
    /\ UNCHANGED <<opts, chartno, held, devices, running, tiebreak, lastcall, setup>>

\* one more COOL of the opening run
OpeningCool ==
    /\ lastcall.n = 0
    /\ player.lastcombo < MaxWarmUp
    /\ player' = update_grade_from_distance(player, 0)
    /\ UNCHANGED <<opts, chartno, held, devices, running, tiebreak, lastcall, setup>>

\* the opening run is over, and fewer than MaxCalls calls have followed it
MayCall ==
    /\ lastcall.n < MaxCalls
    /\ lastcall.n > 0 \/ player.lastcombo \in WarmUps

UpdateGradeFromDistance ==
    /\ MayCall
    /\ \E dist \in Dists :
         LET after == update_grade_from_distance(player, dist)
         IN /\ player' = after
            /\ lastcall' = Called("distance", dist, GradeOfDistance(dist)[2], after)
    /\ UNCHANGED <<opts, chartno, held, devices, running, tiebreak, setup>>

UpdateGradeFromDamage ==
    /\ MayCall
    /\ \E damage \in BombDamages :
         LET after == update_grade_from_damage(player, damage)
         IN /\ player' = after
            /\ lastcall' = Called("damage", BAD_CUTOFF, damage, after)
    /\ UNCHANGED <<opts, chartno, held, devices, running, tiebreak, setup>>

UpdateGradeToMiss ==
    /\ MayCall
    /\ LET after == update_grade_to_miss(player)
       IN /\ player' = after
          /\ lastcall' = Called("miss", BAD_CUTOFF, MISS_DAMAGE, after)
    /\ UNCHANGED <<opts, chartno, held, devices, running, tiebreak, setup>>

NextGrade == OpeningMiss \/ OpeningCool \/ UpdateGradeFromDistance \/ UpdateGradeFromDamage \/ UpdateGradeToMiss

SpecGrade == InitGrade /\ [][NextGrade]_vars

----------------------------------------------------------------------------
(* Object data and its conversions, format/obj.rs.  An object datum is a     *)
(* record of its variant, lane, sound reference (NoSound for None) and       *)
(* damage; the fields a variant does not have are 0, NoSound and NoDamage.  *)

\* the number of conversions applied one after the other
MaxConvs == 2

NoSound == 0
ConvLanes == {1, 2}
SoundRefs == {NoSound, 7}

ObjData(type, lane, sound, damage) ==
    [type |-> type, lane |-> lane, sound |-> sound, damage |-> damage]
Deleted == ObjData("Deleted", 0, NoSound, NoDamage)

\* the values of ObjData of the model, format/obj.rs:92-161
ObjDatas ==
    {ObjData(t, l, snd, NoDamage) :
        t \in {"Visible", "Invisible", "LNStart", "LNDone"}, l \in ConvLanes,
        snd \in SoundRefs}
    \cup {ObjData("Bomb", l, snd, d) :
             l \in ConvLanes, snd \in SoundRefs, d \in {GaugeDamage(500), InstantDeath}}
    \cup {ObjData("BGM", 0, 7, NoDamage)}
    \cup {ObjData(t, 0, NoSound, NoDamage) :
             t \in {"Deleted", "SetBGA", "SetBPM", "Stop", "StopEnd", "SetMeasureFactor",
                    "MeasureBar", "End"}}

\* fail!(..): the task fails
Failure == [type |-> "fail!"]

\* the match of to_visible, to_invisible, to_lnstart and to_lndone,
\* format/obj.rs:441-474
Convert(data, target) ==
    IF data.type \in {"Visible", "Invisible", "LNStart", "LNDone"}
    THEN ObjData(target, data.lane, data.sound, NoDamage)
    ELSE Failure

to_visible(data) == Convert(data, "Visible")
to_invisible(data) == Convert(data, "Invisible")
to_lnstart(data) == Convert(data, "LNStart")
to_lndone(data) == Convert(data, "LNDone")

\* ObjConvOps::to_effect, format/obj.rs:476-485
to_effect(data) ==
    IF data.type \in {"Visible", "Invisible", "LNStart", "LNDone"} /\ data.sound # NoSound
    THEN ObjData("BGM", 0, data.sound, NoDamage)
    ELSE IF is_object(data) THEN Deleted
    ELSE data

\* ObjConvOps::with_object_lane, format/obj.rs:487-497
with_object_lane(data, lane) == IF is_object(data) THEN [data EXCEPT !.lane = lane] ELSE data

\* the conversions by name
ConvOps == {"to_visible", "to_invisible", "to_lnstart", "to_lndone"}
ConvTarget(op) ==
    CASE op = "to_visible" -> "Visible"
      [] op = "to_invisible" -> "Invisible"
      [] op = "to_lnstart" -> "LNStart"
      [] op = "to_lndone" -> "LNDone"
ApplyConv(op, data) ==
    CASE op = "to_visible" -> to_visible(data)
      [] op = "to_invisible" -> to_invisible(data)
      [] op = "to_lnstart" -> to_lnstart(data)
      [] op = "to_lndone" -> to_lndone(data)

\* some object datum, no operation applied yet
InitConv ==
    /\ opts = "Play" /\ chartno = 1 /\ held = {} /\ devices = {} /\ running = TRUE
    /\ player = NewPlayer(1, NNotes(1), DefaultSpeed)
    /\ tiebreak = "next" /\ lastcall = NoCall
    /\ preproc = NoSetup /\ keyspec = NoSetup /\ mixer = NoSetup /\ scene = NoSetup
    /\ \E data \in ObjDatas : conv = [op |-> "none", n |-> 0, data |-> data, result |-> data]

\* the value the next operation is applied to: the result of the last one
Receiver == conv.result

MayConvert == conv.n < MaxConvs /\ conv.result # Failure

\* one of to_visible, to_invisible, to_lnstart, to_lndone
ToObject ==
    /\ MayConvert
    /\ \E op \in ConvOps :
          conv' = [op |-> op, n |-> conv.n + 1, data |-> Receiver,
                   result |-> ApplyConv(op, Receiver)]
    /\ UNCHANGED <<opts, chartno, player, held, devices, running, tiebreak, lastcall,
                   preproc, keyspec, mixer, scene>>

ToEffect ==
    /\ MayConvert
    /\ conv' = [op |-> "to_effect", n |-> conv.n + 1, data |-> Receiver,
                result |-> to_effect(Receiver)]
    /\ UNCHANGED <<opts, chartno, player, held, devices, running, tiebreak, lastcall,
                   preproc, keyspec, mixer, scene>>

WithObjectLane ==
    /\ MayConvert
    /\ \E lane \in ConvLanes :
          conv' = [op |-> "with_object_lane", n |-> conv.n + 1, data |-> Receiver,
                   result |-> with_object_lane(Receiver, lane)]
    /\ UNCHANGED <<opts, chartno, player, held, devices, running, tiebreak, lastcall,
                   preproc, keyspec, mixer, scene>>

NextConv == ToObject \/ ToEffect \/ WithObjectLane

SpecConv == InitConv /\ [][NextConv]_vars

----------------------------------------------------------------------------
(* The BMS preprocessor, format/bms/preproc.rs.  preproc holds the blocks of *)
(* the Preprocessor, the result vector the caller passes to every call, and,  *)
(* as history, the commands fed with feed_other (each with the value of       *)
(* inactive() at that time), the number of flow commands fed, and the result *)
(* as it was when finish was called.                                         *)

\* the number of commands fed to one preprocessor
MaxFeeds == 4

\* Option<int>::None for the value of a block
NoVal == 0

Block(val, state, skip) == [val |-> val, state |-> state, skip |-> skip]

\* BlockState::inactive, preproc.rs:66-68
StateInactive(state) == state \in {"Ignore", "NoFurther"}

\* Preprocessor::inactive, preproc.rs:111-114
inactive(blocks) == blocks[Len(blocks)].skip \/ StateInactive(blocks[Len(blocks)].state)

\* the non-flow commands and the flow commands of the model
Cmds == {42, 43}
FlowCommands ==
    {[kind |-> k, val |-> v] : k \in {"Random", "SetRandom", "If", "ElseIf"}, v \in {0, 1, 2}}
    \cup {[kind |-> k, val |-> 0] : k \in {"EndRandom", "Else", "EndIf", "Switch"}}

\* Preprocessor::new, preproc.rs:105-108
NewPreprocessor ==
    [op |-> "new", n |-> 0, blocks |-> <<Block(NoVal, "Outside", FALSE)>>,
     result |-> <<>>, fed |-> <<>>, flows |-> 0, finished |-> FALSE, atfinish |-> <<>>,
     taken |-> <<0>>, lastflow |-> [kind |-> "none", val |-> 0]]

\* feed_other that keeps every command
feed_otherAlways(blocks, cmd, result) == Append(result, cmd)

\* Preprocessor::feed_other, preproc.rs:118-122: the result vector after the call
feed_other(blocks, cmd, result) ==
    IF ~inactive(blocks) THEN Append(result, cmd) ELSE result

\* the last block put into the state `state`
WithLastState(blocks, state) == [blocks EXCEPT ![Len(blocks)].state = state]

\* rposition(|i| i.state != Outside), preproc.rs:167: 0 for None
LastInside(blocks) ==
    LET inside == {i \in 1 .. Len(blocks) : blocks[i].state # "Outside"}
    IN IF inside = {} THEN 0 ELSE CHOOSE i \in inside : \A j \in inside : j <= i

\* feed_flow with an #ELSE that becomes active whenever the block is inactive
feed_flowElseReopens(blocks, flow, generated) ==
    LET last == blocks[Len(blocks)]
        val == IF flow.val <= 0 THEN NoVal ELSE flow.val
    IN CASE flow.kind \in {"Random", "SetRandom"} ->
              Append(blocks,
                     Block(IF val = NoVal THEN NoVal
                           ELSE IF flow.kind = "SetRandom" THEN val
                           ELSE IF ~inactive(blocks) THEN generated
                           ELSE NoVal,
                           "Outside", inactive(blocks)))
         [] flow.kind = "EndRandom" ->
              IF Len(blocks) > 1 THEN SubSeq(blocks, 1, Len(blocks) - 1) ELSE blocks
         [] flow.kind \in {"If", "ElseIf"} ->
              WithLastState(blocks,
                  IF (flow.kind = "If" /\ ~StateInactive(last.state)) \/ last.state = "Ignore"
                  THEN IF val = NoVal \/ val # last.val THEN "Ignore" ELSE "Process"
                  ELSE "NoFurther")
         [] flow.kind = "Else" ->
              WithLastState(blocks,
                            IF StateInactive(last.state) THEN "Process" ELSE "NoFurther")
         [] flow.kind = "EndIf" ->
              WithLastState(IF LastInside(blocks) > 1
                            THEN SubSeq(blocks, 1, LastInside(blocks))
                            ELSE blocks,
                            "Outside")
         [] OTHER -> blocks

\* Preprocessor::feed_flow, preproc.rs:126-178: the blocks after the call, generated
\* being the number drawn for a #RANDOM
feed_flow(blocks, flow, generated) ==
    LET last == blocks[Len(blocks)]
        val == IF flow.val <= 0 THEN NoVal ELSE flow.val
    IN CASE flow.kind \in {"Random", "SetRandom"} ->
              Append(blocks,
                     Block(IF val = NoVal THEN NoVal
                           ELSE IF flow.kind = "SetRandom" THEN val
                           ELSE IF ~inactive(blocks) THEN generated
                           ELSE NoVal,
                           "Outside", inactive(blocks)))
         [] flow.kind = "EndRandom" ->
              IF Len(blocks) > 1 THEN SubSeq(blocks, 1, Len(blocks) - 1) ELSE blocks
         [] flow.kind \in {"If", "ElseIf"} ->
              WithLastState(blocks,
                  IF (flow.kind = "If" /\ ~StateInactive(last.state)) \/ last.state = "Ignore"
                  THEN IF val = NoVal \/ val # last.val THEN "Ignore" ELSE "Process"
                  ELSE "NoFurther")
         [] flow.kind = "Else" ->
              WithLastState(blocks, IF last.state = "Ignore" THEN "Process" ELSE "NoFurther")
         [] flow.kind = "EndIf" ->
              WithLastState(IF LastInside(blocks) > 1
                            THEN SubSeq(blocks, 1, LastInside(blocks))
                            ELSE blocks,
                            "Outside")
         [] OTHER -> blocks

\* the history variable: for every block, the number of branches of its current
\* #IF chain that have been in the Process state.  nb are the blocks after the flow
\* command; an #IF begins a chain, an #ELSEIF or #ELSE continues it, #ENDIF ends it.
Taken(taken, nb, flow) ==
    LET base == IF Len(nb) > Len(taken) THEN Append(taken, 0)
                ELSE SubSeq(taken, 1, Len(nb))
        entered == IF nb[Len(nb)].state = "Process" THEN 1 ELSE 0
    IN [base EXCEPT ![Len(nb)] =
           CASE flow.kind = "If" -> entered
             [] flow.kind \in {"ElseIf", "Else"} -> @ + entered
             [] flow.kind = "EndIf" -> 0
             [] OTHER -> @]

\* Preprocessor::finish, preproc.rs:182-183: the result vector after the call
finish(blocks, result) == result

\* a fresh preprocessor; the play is not on
InitPreproc ==
    /\ opts = "Play" /\ chartno = 1 /\ held = {} /\ devices = {} /\ running = TRUE
    /\ player = NewPlayer(1, NNotes(1), DefaultSpeed)
    /\ tiebreak = "next" /\ lastcall = NoCall
    /\ conv = NoSetup /\ keyspec = NoSetup /\ mixer = NoSetup /\ scene = NoSetup
    /\ preproc = NewPreprocessor

MayFeed == ~preproc.finished /\ preproc.n < MaxFeeds

FeedOther ==
    /\ MayFeed
    /\ \E cmd \in Cmds :
          preproc' = [preproc EXCEPT
                         !.op = "feed_other", !.n = @ + 1,
                         !.result = feed_other(preproc.blocks, cmd, @),
                         !.fed = Append(@, [cmd |-> cmd,
                                            active |-> ~inactive(preproc.blocks)])]
    /\ UNCHANGED <<opts, chartno, player, held, devices, running, tiebreak, lastcall,
                   conv, keyspec, mixer, scene>>

FeedFlow ==
    /\ MayFeed
    /\ \E flow \in FlowCommands :
          \E generated \in (IF flow.kind = "Random" /\ flow.val > 0 /\ ~inactive(preproc.blocks)
                            THEN 1 .. flow.val ELSE {NoVal}) :
             preproc' = [preproc EXCEPT
                            !.op = "feed_flow", !.n = @ + 1,
                            !.blocks = feed_flow(@, flow, generated),
                            !.flows = @ + 1,
                            !.taken = Taken(@, feed_flow(preproc.blocks, flow, generated),
                                            flow),
                            !.lastflow = flow]
    /\ UNCHANGED <<opts, chartno, player, held, devices, running, tiebreak, lastcall,
                   conv, keyspec, mixer, scene>>

Finish ==
    /\ ~preproc.finished
    /\ preproc' = [preproc EXCEPT !.op = "finish", !.finished = TRUE,
                                  !.atfinish = preproc.result,
                                  !.result = finish(preproc.blocks, @)]
    /\ UNCHANGED <<opts, chartno, player, held, devices, running, tiebreak, lastcall,
                   conv, keyspec, mixer, scene>>

NextPreproc == FeedOther \/ FeedFlow \/ Finish

SpecPreproc == InitPreproc /\ [][NextPreproc]_vars

----------------------------------------------------------------------------
(* The key specification, engine/keyspec.rs.  A key specification string is  *)
(* a sequence of tokens: a word K(d1, d2, c), which stands for the two       *)
(* base-36 digits d1 d2 of a channel followed by the character c, or a       *)
(* blank.  The empty string is the empty sequence.                           *)

\* the number of tokens of a key specification string given with the options
MaxWords == 2

NLANES == 72
\* Option: None and Some(x)
None == [some |-> FALSE]
Some(x) == [some |-> TRUE, val |-> x]
NoKind == "none"
Blank == [blank |-> TRUE, chan |-> 0, kind |-> " "]
K(d1, d2, c) == [blank |-> FALSE, chan |-> d1 * 36 + d2, kind |-> c]

\* KeyKind::from_char, keyspec.rs:79-93
from_char(c) ==
    CASE c = "a" -> "WhiteKey"
      [] c = "y" -> "WhiteKeyAlt"
      [] c = "b" -> "BlackKey"
      [] c = "s" -> "Scratch"
      [] c = "p" -> "FootPedal"
      [] c = "q" -> "Button1"
      [] c = "w" -> "Button2"
      [] c = "e" -> "Button3"
      [] c = "r" -> "Button4"
      [] c = "t" -> "Button5"
      [] OTHER -> NoKind

\* parse_key_spec, keyspec.rs:167-185: the (lane, kind) pairs of the string s, or
\* None; specs holds the pairs read so far
RECURSIVE ParseFrom(_, _)
ParseFrom(s, specs) ==
    IF s = <<>> THEN Some(specs)
    ELSE IF Head(s).blank THEN ParseFrom(Tail(s), specs)
    ELSE IF Head(s).chan >= 36 /\ Head(s).chan <= 107 /\ from_char(Head(s).kind) # NoKind
         THEN ParseFrom(Tail(s),
                        Append(specs, [lane |-> Head(s).chan - 36,
                                       kind |-> from_char(Head(s).kind)]))
         ELSE None

parse_key_spec(s) == ParseFrom(s, <<>>)

\* PRESETS, keyspec.rs:188-206
PRESETS == <<
    [name |-> "5", left |-> <<K(1,6,"s"), K(1,1,"a"), K(1,2,"b"), K(1,3,"a"), K(1,4,"b"),
                              K(1,5,"a")>>, right |-> <<>>],
    [name |-> "10", left |-> <<K(1,6,"s"), K(1,1,"a"), K(1,2,"b"), K(1,3,"a"), K(1,4,"b"),
                               K(1,5,"a")>>,
     right |-> <<K(2,1,"a"), K(2,2,"b"), K(2,3,"a"), K(2,4,"b"), K(2,5,"a"), K(2,6,"s")>>],
    [name |-> "5/fp", left |-> <<K(1,6,"s"), K(1,1,"a"), K(1,2,"b"), K(1,3,"a"), K(1,4,"b"),
                                 K(1,5,"a"), K(1,7,"p")>>, right |-> <<>>],
    [name |-> "10/fp", left |-> <<K(1,6,"s"), K(1,1,"a"), K(1,2,"b"), K(1,3,"a"), K(1,4,"b"),
                                  K(1,5,"a"), K(1,7,"p")>>,
     right |-> <<K(2,7,"p"), K(2,1,"a"), K(2,2,"b"), K(2,3,"a"), K(2,4,"b"), K(2,5,"a"),
                 K(2,6,"s")>>],
    [name |-> "7", left |-> <<K(1,6,"s"), K(1,1,"a"), K(1,2,"b"), K(1,3,"a"), K(1,4,"b"),
                              K(1,5,"a"), K(1,8,"b"), K(1,9,"a")>>, right |-> <<>>],
    [name |-> "14", left |-> <<K(1,6,"s"), K(1,1,"a"), K(1,2,"b"), K(1,3,"a"), K(1,4,"b"),
                               K(1,5,"a"), K(1,8,"b"), K(1,9,"a")>>,
     right |-> <<K(2,1,"a"), K(2,2,"b"), K(2,3,"a"), K(2,4,"b"), K(2,5,"a"), K(2,8,"b"),
                 K(2,9,"a"), K(2,6,"s")>>],
    [name |-> "7/fp", left |-> <<K(1,6,"s"), K(1,1,"a"), K(1,2,"b"), K(1,3,"a"), K(1,4,"b"),
                                 K(1,5,"a"), K(1,8,"b"), K(1,9,"a"), K(1,7,"p")>>,
     right |-> <<>>],
    [name |-> "14/fp", left |-> <<K(1,6,"s"), K(1,1,"a"), K(1,2,"b"), K(1,3,"a"), K(1,4,"b"),
                                  K(1,5,"a"), K(1,8,"b"), K(1,9,"a"), K(1,7,"p")>>,
     right |-> <<K(2,7,"p"), K(2,1,"a"), K(2,2,"b"), K(2,3,"a"), K(2,4,"b"), K(2,5,"a"),
                 K(2,8,"b"), K(2,9,"a"), K(2,6,"s")>>],
    [name |-> "9", left |-> <<K(1,1,"q"), K(1,2,"w"), K(1,3,"e"), K(1,4,"r"), K(1,5,"t"),
                              K(2,2,"r"), K(2,3,"e"), K(2,4,"w"), K(2,5,"q")>>,
     right |-> <<>>],
    [name |-> "9-bme", left |-> <<K(1,1,"q"), K(1,2,"w"), K(1,3,"e"), K(1,4,"r"),
                                  K(1,5,"t"), K(1,8,"r"), K(1,9,"e"), K(1,6,"w"),
                                  K(1,7,"q")>>, right |-> <<>>]
>>

\* preset_to_key_spec, keyspec.rs:218-253: the left and right strings of the preset,
\* or None; bms.present is the set of lanes that have an object
preset_to_key_spec(bms, preset) ==
    LET name ==
          IF preset = None \/ preset.val \in {"bms", "bme", "bml"}
          THEN LET isbme == bms.present \cap {8, 9, 36 + 8, 36 + 9} # {}
                   haspedal == bms.present \cap {7, 36 + 7} # {}
                   nkeys == IF bms.mode \in {"Couple", "Double"}
                            THEN IF isbme THEN "14" ELSE "10"
                            ELSE IF isbme THEN "7" ELSE "5"
               IN IF haspedal THEN nkeys \o "/fp" ELSE nkeys
          ELSE IF preset.val = "pms"
          THEN IF bms.present \cap {6, 7, 8, 9} # {} THEN "9-bme" ELSE "9"
          ELSE preset.val
        found == {i \in 1 .. Len(PRESETS) : PRESETS[i].name = name}
    IN IF found = {} THEN None
       ELSE LET i == CHOOSE i \in found : \A j \in found : i <= j
            IN Some([left |-> PRESETS[i].left, right |-> PRESETS[i].right])

\* the closure parse_and_add without the test for a lane named twice
RECURSIVE AddLanesUnchecked(_, _)
AddLanesUnchecked(ks, specs) ==
    IF specs = <<>> THEN Some(ks)
    ELSE AddLanesUnchecked([ks EXCEPT !.order = Append(@, Head(specs).lane),
                                      !.kinds[Head(specs).lane] = Head(specs).kind],
                           Tail(specs))

\* the loop of the closure parse_and_add, keyspec.rs:285-290: the key specification
\* with the lanes of specs added, or None when a lane has a kind already
RECURSIVE AddLanes(_, _)
AddLanes(ks, specs) ==
    IF specs = <<>> THEN Some(ks)
    ELSE IF ks.kinds[Head(specs).lane] # NoKind THEN None
    ELSE AddLanes([ks EXCEPT !.order = Append(@, Head(specs).lane),
                             !.kinds[Head(specs).lane] = Head(specs).kind],
                  Tail(specs))

\* the closure parse_and_add, keyspec.rs:279-293: the key specification after it and
\* the number of keys added, or None
parse_and_add(ks, keys) ==
    LET parsed == parse_key_spec(keys)
    IN IF parsed = None \/ parsed.val = <<>> THEN None
       ELSE LET added == AddLanes(ks, parsed.val)
            IN IF added = None THEN None
               ELSE Some([ks |-> added.val, nkeys |-> Len(parsed.val)])

Err(msg) == [ok |-> FALSE, error |-> msg]

\* key_spec from the resolved strings on, keyspec.rs:277-317
KeySpecOf(bms, leftkeys, rightkeys) ==
    LET empty == [ok |-> TRUE, split |-> 0, order |-> <<>>,
                  kinds |-> [l \in 0 .. NLANES - 1 |-> NoKind]]
    IN IF leftkeys = <<>> THEN Err("No key model is specified using -k or -K")
       ELSE LET left == parse_and_add(empty, leftkeys)
            IN IF left = None THEN Err("Invalid key spec for left hand side")
               ELSE LET ks == [left.val.ks EXCEPT !.split = @ + left.val.nkeys]
                    IN IF rightkeys = <<>> THEN ks
                       ELSE LET right == parse_and_add(ks, rightkeys)
                            IN IF right = None
                               THEN Err("Invalid key spec for right hand side")
                               ELSE IF bms.mode # "Couple"
                               THEN [right.val.ks EXCEPT !.split = @ + right.val.nkeys]
                               ELSE right.val.ks

\* as_ref_slice_or(""): the string, or the empty string for None
OrEmpty(s) == IF s = None THEN <<>> ELSE s.val

\* the strings key_spec works on, keyspec.rs:261-275: those of the options or, when
\* neither is given, those of the preset; None for an invalid preset name
ResolvedKeys(bms, preset, leftkeys, rightkeys) ==
    IF leftkeys = None /\ rightkeys = None
    THEN preset_to_key_spec(bms, IF preset = None /\ bms.ext = "pms" THEN Some("pms")
                                 ELSE preset)
    ELSE Some([left |-> OrEmpty(leftkeys), right |-> OrEmpty(rightkeys)])

\* key_spec, keyspec.rs:256-318
key_spec(bms, preset, leftkeys, rightkeys) ==
    LET keys == ResolvedKeys(bms, preset, leftkeys, rightkeys)
    IN IF keys = None THEN Err("Invalid preset name")
       ELSE KeySpecOf(bms, keys.val.left, keys.val.right)

\* the failure of an assert!
AssertionFailed == [assert |-> FALSE]

\* KeySpec::left_lanes and right_lanes, keyspec.rs:149-159
left_lanes(ks) ==
    IF ks.split <= Len(ks.order) THEN Some(SubSeq(ks.order, 1, ks.split))
    ELSE AssertionFailed
right_lanes(ks) ==
    IF ks.split <= Len(ks.order) THEN Some(SubSeq(ks.order, ks.split + 1, Len(ks.order)))
    ELSE AssertionFailed

\* the tokens of the strings given with the options: two lanes, a lane named with
\* another kind, a channel out of range, a character that is no kind, a blank
Tokens == {K(1,1,"a"), K(1,2,"s"), K(1,1,"s"), K(3,0,"a"), K(1,3,"z"), Blank}

RECURSIVE StringsOf(_)
StringsOf(n) ==
    IF n = 0 THEN {<<>>}
    ELSE {<<>>} \cup {<<t>> \o s : t \in Tokens, s \in StringsOf(n - 1)}

\* the chart files: the play mode, the lanes with an object, the extension
BmsFiles ==
    {[mode |-> m, present |-> pr, ext |-> e] :
        m \in {"Single", "Couple", "Double"}, pr \in {{}, {6}, {7}, {8, 36 + 7}},
        e \in {"bms", "pms"}}
Presets == {None} \cup {Some(name) : name \in {"5", "10/fp", "9", "pms", "bme", "nokey"}}
KeyStrings == {None} \cup {Some(s) : s \in StringsOf(MaxWords)}

\* key_spec has not been called; the play is not on
InitKeySpec ==
    /\ opts = "Play" /\ chartno = 1 /\ held = {} /\ devices = {} /\ running = TRUE
    /\ player = NewPlayer(1, NNotes(1), DefaultSpeed)
    /\ tiebreak = "next" /\ lastcall = NoCall
    /\ conv = NoSetup /\ preproc = NoSetup /\ mixer = NoSetup /\ scene = NoSetup
    /\ keyspec = NoSetup

\* the call of key_spec when the play is set up (sonorous.rs, ui/selecting.rs:52):
\* with key strings from the options, or with a preset
KeySpecCall ==
    /\ keyspec.op = "none"
    /\ \E leftkeys, rightkeys \in KeyStrings :
          \E bms \in (IF leftkeys = None /\ rightkeys = None THEN BmsFiles
                      ELSE {b \in BmsFiles : b.present = {} /\ b.ext = "bms"}),
             preset \in (IF leftkeys = None /\ rightkeys = None THEN Presets ELSE {None}) :
             keyspec' = [op |-> "key_spec", n |-> 1, bms |-> bms, preset |-> preset,
                         leftkeys |-> leftkeys, rightkeys |-> rightkeys,
                         keys |-> ResolvedKeys(bms, preset, leftkeys, rightkeys),
                         result |-> key_spec(bms, preset, leftkeys, rightkeys)]
    /\ UNCHANGED <<opts, chartno, player, held, devices, running, tiebreak, lastcall,
                   conv, preproc, mixer, scene>>

NextKeySpec == KeySpecCall

SpecKeySpec == InitKeySpec /\ [][NextKeySpec]_vars

\* the lanes of the key specification that read_keymap goes through
MaxOrder == 2

\* KeyKind::all, keyspec.rs:59-73
KeyKindAll ==
    {"WhiteKey", "WhiteKeyAlt", "BlackKey", "Scratch", "FootPedal",
     "Button1", "Button2", "Button3", "Button4", "Button5"}

\* KeyKind::to_char, keyspec.rs:97-110
to_char(kind) ==
    CASE kind = "WhiteKey" -> "a"
      [] kind = "WhiteKeyAlt" -> "y"
      [] kind = "BlackKey" -> "b"
      [] kind = "Scratch" -> "s"
      [] kind = "FootPedal" -> "p"
      [] kind = "Button1" -> "w"
      [] kind = "Button2" -> "e"
      [] kind = "Button3" -> "r"
      [] kind = "Button4" -> "t"
      [] kind = "Button5" -> "s"

\* read_keymap called with a key specification whose lanes, in order, have the
\* kinds `kinds`; lane i has the key 36 + i
InitKeyMap ==
    /\ opts = "Play" /\ chartno = 1 /\ held = {} /\ devices = {} /\ running = TRUE
    /\ player = NewPlayer(1, NNotes(1), DefaultSpeed)
    /\ tiebreak = "next" /\ lastcall = NoCall
    /\ conv = NoSetup /\ preproc = NoSetup /\ mixer = NoSetup /\ scene = NoSetup
    /\ \E n \in 1 .. MaxOrder :
          \E kinds \in [1 .. n -> KeyKindAll] :
             keyspec = [op |-> "read_keymap", n |-> 0, kinds |-> kinds, envvars |-> <<>>]

\* one round of the loop over keyspec.order, input.rs:237-242: the name of the
\* environment variable of the lane is made of its key and the character of its kind
ReadKeymapLane ==
    /\ keyspec.op = "read_keymap"
    /\ keyspec.n < Len(keyspec.kinds)
    /\ keyspec' = [keyspec EXCEPT
                      !.n = @ + 1,
                      !.envvars = Append(@, [key |-> 36 + keyspec.n,
                                             kind |-> to_char(keyspec.kinds[keyspec.n + 1])])]
    /\ UNCHANGED <<opts, chartno, player, held, devices, running, tiebreak, lastcall,
                   conv, preproc, mixer, scene>>

NextKeyMap == ReadKeymapLane

SpecKeyMap == InitKeyMap /\ [][NextKeyMap]_vars

----------------------------------------------------------------------------
(* The sounds: Player::play_sound and the channels of the mixer,            *)
(* player.rs:380-417.  The mixer is SDL_mixer: a sound played on a given     *)
(* channel takes that channel, a sound played on no given channel takes the  *)
(* first channel that is not reserved and not playing, or none when all are  *)
(* playing; a channel stops playing on its own when its sound has ended.     *)

\* the number of calls of play_sound
MaxPlays == 4
\* the channels allocated by Player::new (64 in the code)
InitialChannels == 2
\* the channels play_sound allocates when none is free (32 in the code)
MoreChannels == 1

\* None in sndlastch and lastchsnd
NoIndex == -1
\* the sound references of the chart; the last one has no chunk (its file is missing)
Sounds == 0 .. 3
HasChunk(sref) == sref # 3
\* sdl_mixer::reserve_channels(1), player.rs:300
ReservedChannels == {0}

\* Player::new and allocate_more_channels(64), player.rs:286-299
NewMixer ==
    [op |-> "new", n |-> 0, sref |-> NoIndex, ch |-> NoIndex,
     nchannels |-> InitialChannels, playing |-> {},
     sndlastch |-> [x \in Sounds |-> NoIndex],
     lastchsnd |-> [y \in 0 .. InitialChannels - 1 |-> NoIndex],
     played |-> {}]

\* Player::allocate_more_channels, player.rs:381-388
allocate_more_channels(m, howmany) ==
    [m EXCEPT !.nchannels = @ + howmany,
              !.lastchsnd = [y \in 0 .. m.nchannels + howmany - 1 |->
                                IF y \in DOMAIN m.lastchsnd THEN m.lastchsnd[y]
                                ELSE NoIndex]]

\* Chunk::play(lastch, 0): the channel the sound is played on, or NoIndex
PlayOn(m, lastch) ==
    IF lastch # NoIndex THEN lastch
    ELSE LET free == (0 .. m.nchannels - 1) \ (ReservedChannels \cup m.playing)
         IN IF free = {} THEN NoIndex ELSE CHOOSE y \in free : \A z \in free : y <= z

\* the loop of play_sound, player.rs:403-407: more channels are allocated until
\* the sound plays
RECURSIVE PlayLoop(_, _)
PlayLoop(m, lastch) ==
    IF PlayOn(m, lastch) # NoIndex THEN [m EXCEPT !.ch = PlayOn(m, lastch)]
    ELSE PlayLoop(allocate_more_channels(m, MoreChannels), lastch)

\* play_sound that leaves the entry of the sound last played on the channel
play_soundKeepsLast(m, sref) ==
    IF ~HasChunk(sref) THEN m
    ELSE LET q == PlayLoop(m, m.sndlastch[sref])
         IN [q EXCEPT !.playing = @ \cup {q.ch},
                      !.sndlastch[sref] = q.ch,
                      !.lastchsnd[q.ch] = sref]

\* Player::play_sound, player.rs:393-417
play_sound(m, sref) ==
    IF ~HasChunk(sref) THEN m
    ELSE LET q == PlayLoop(m, m.sndlastch[sref])
             idx == q.lastchsnd[q.ch]
         IN [q EXCEPT !.playing = @ \cup {q.ch},
                      !.sndlastch = [x \in Sounds |->
                                        IF x = sref THEN q.ch
                                        ELSE IF x = idx THEN NoIndex
                                        ELSE @[x]],
                      !.lastchsnd[q.ch] = sref]

\* a player with no sound played yet; the play itself is left out
InitSound ==
    /\ opts = "Play" /\ chartno = 1 /\ held = {} /\ devices = {} /\ running = TRUE
    /\ player = NewPlayer(1, NNotes(1), DefaultSpeed)
    /\ tiebreak = "next" /\ lastcall = NoCall
    /\ conv = NoSetup /\ preproc = NoSetup /\ keyspec = NoSetup /\ scene = NoSetup
    /\ mixer = NewMixer

\* a call of play_sound: by tick for a BGM, a key sound or a bomb
PlaySound ==
    /\ mixer.n < MaxPlays
    /\ \E sref \in Sounds :
          mixer' = [play_sound(mixer, sref) EXCEPT !.op = "play_sound", !.n = @ + 1,
                                                   !.sref = sref,
                                                   !.played = @ \cup {sref}]
    /\ UNCHANGED <<opts, chartno, player, held, devices, running, tiebreak, lastcall,
                   conv, preproc, keyspec, scene>>

\* the sound of a channel ends
SoundEnds ==
    /\ \E y \in mixer.playing :
          mixer' = [mixer EXCEPT !.op = "ended", !.playing = @ \ {y}, !.ch = y]
    /\ UNCHANGED <<opts, chartno, player, held, devices, running, tiebreak, lastcall,
                   conv, preproc, keyspec, scene>>

NextSound == PlaySound \/ SoundEnds

SpecSound == InitSound /\ [][NextSound]_vars

----------------------------------------------------------------------------
(* The song selection scene, ui/selecting.rs.  The main task runs tick; the  *)
(* scanner and the preloaders are worker tasks that send messages to the     *)
(* channel they were given when spawned.  refresh replaces the port and the  *)
(* channel, so what the tasks of an earlier refresh send is never received.  *)
(* epoch numbers the refreshes; the epoch and the path kept with the         *)
(* preloaded data are history variables.                                     *)

\* the number of calls of tick of the selection scene
MaxSceneTicks == 3
\* the number of key events polled in one tick of the selection scene
MaxSceneKeys == 1

\* the directories under the root and the BMS files in them
Dirs == << <<"a.bms">>, <<"b.bms">> >>
HasBanner(path) == path = "a.bms"
\* the file that may fail to load
MayFail(path) == path = "b.bms"
NoPath == ""

\* PreloadingState, selecting.rs:101-113; timeout is 0 or 1 for get_ticks() +
\* PRELOAD_DELAY, path and epoch tell which task the data came from
Preloading(state, timeout, path, epoch, banner) ==
    [state |-> state, timeout |-> timeout, path |-> path, epoch |-> epoch,
     banner |-> banner]
NothingToPreload == Preloading("NothingToPreload", 0, NoPath, 0, NoPath)
PreloadAfter(timeout) == Preloading("PreloadAfter", timeout, NoPath, 0, NoPath)
PreloadingNow == Preloading("Preloading", 0, NoPath, 0, NoPath)
Preloaded(path, epoch) == Preloading("Preloaded", 0, path, epoch, NoPath)
PreloadFailed == Preloading("PreloadFailed", 0, NoPath, 0, NoPath)

\* SelectingScene::new, selecting.rs:197-209; activate has not run yet
NewScene ==
    [op |-> "new", n |-> 0, active |-> FALSE, ret |-> "Continue",
     files |-> <<>>, filesdone |-> FALSE, offset |-> 0, preloaded |-> NothingToPreload,
     epoch |-> 0, keepgoing |-> TRUE, port |-> <<>>, tasks |-> {}, received |-> <<>>]

\* spawn_worker_task, selecting.rs:177-182: a task with the channel of the epoch
\* (tasks of one kind, epoch and path at the same step are kept as one)
Spawned(s, kind, path) ==
    [s EXCEPT !.tasks = @ \cup {[kind |-> kind, epoch |-> s.epoch, path |-> path,
                                 pc |-> 1]}]

\* SelectingScene::refresh, selecting.rs:241-257
refresh(s) ==
    Spawned([s EXCEPT !.epoch = @ + 1, !.keepgoing = TRUE, !.port = <<>>,
                      !.files = <<>>, !.filesdone = FALSE, !.offset = 0,
                      !.preloaded = NothingToPreload],
            "scanner", NoPath)

\* SelectingScene::current, selecting.rs:326-332; NoPath is None
current(s) == IF s.offset < Len(s.files) THEN s.files[s.offset + 1] ELSE NoPath

\* is_current without the comparison of the paths
is_currentAlways(s, path) == current(s) # NoPath

\* SelectingScene::is_current, selecting.rs:335-337
is_current(s, path) == current(s) # NoPath /\ current(s) = path

\* SelectingScene::update_offset, selecting.rs:340-354 (the scroll offset left out)
update_offset(s, offset) ==
    [s EXCEPT !.offset = offset,
              !.preloaded = IF offset < Len(s.files) THEN PreloadAfter(1)
                            ELSE NothingToPreload]

\* create_loading_scene, selecting.rs:358-397: whether a loading scene is made; the
\* preloaded data is taken
create_loading_scene(s) ==
    [s |-> [s EXCEPT !.preloaded = PreloadAfter(0)],
     ret |-> IF s.preloaded.state = "Preloaded" \/ current(s) # NoPath THEN "PushScene"
             ELSE "Continue"]

SceneKeys == {"Up", "Down", "F5", "Return", "Escape"}

\* one event of the event loop of tick, selecting.rs:408-468
SceneEvent(s, key) ==
    CASE key = "Escape" -> [s |-> s, ret |-> "PopScene"]
      [] key = "Up" ->
           [s |-> IF s.offset > 0 THEN update_offset(s, s.offset - 1) ELSE s,
            ret |-> "Continue"]
      [] key = "Down" ->
           [s |-> IF s.offset + 1 < Len(s.files) THEN update_offset(s, s.offset + 1) ELSE s,
            ret |-> "Continue"]
      [] key = "F5" -> [s |-> refresh(s), ret |-> "Continue"]
      [] key = "Return" -> create_loading_scene(s)

\* the event loop of tick: it returns at the first event that leaves the scene
RECURSIVE SceneEvents(_, _)
SceneEvents(s, keys) ==
    IF keys = <<>> THEN [s |-> s, ret |-> "Continue"]
    ELSE LET r == SceneEvent(s, Head(keys))
         IN IF r.ret # "Continue" THEN r ELSE SceneEvents(r.s, Tail(keys))

\* one message of the message loop of tick, selecting.rs:473-511
Receive(s, msg) ==
    CASE msg.type = "PushFiles" ->
           [s EXCEPT !.preloaded = IF s.files = <<>> THEN PreloadAfter(0) ELSE @,
                     !.files = @ \o msg.paths]
      [] msg.type = "NoMoreFiles" -> [s EXCEPT !.filesdone = TRUE]
      [] msg.type = "BmsFailed" ->
           IF ~is_current(s, msg.path) THEN s ELSE [s EXCEPT !.preloaded = PreloadFailed]
      [] msg.type = "BmsHashRead" -> s
      [] msg.type = "BmsLoaded" ->
           IF ~is_current(s, msg.path) THEN s
           ELSE [s EXCEPT !.preloaded = Preloaded(msg.path, msg.epoch)]
      [] msg.type = "BmsBannerLoaded" ->
           IF ~is_current(s, msg.path) THEN s
           ELSE IF s.preloaded.state = "Preloaded" /\ s.preloaded.banner = NoPath
           THEN [s EXCEPT !.preloaded.banner = msg.path]
           ELSE s

\* the message loop of tick: the port is drained; received keeps, for each message,
\* the preloading state before and after it
RECURSIVE Drain(_)
Drain(s) ==
    IF s.port = <<>> THEN s
    ELSE LET r == Receive([s EXCEPT !.port = Tail(@)], Head(s.port))
         IN Drain([r EXCEPT !.received =
                       Append(@, [msg |-> Head(s.port), current |-> current(s),
                                  before |-> s.preloaded, after |-> r.preloaded])])

\* the end of tick, selecting.rs:515-526: the preloading task is spawned when the
\* delay is over; elapsed tells whether get_ticks() is past a timeout set earlier
SpawnWhenDue(s, elapsed) ==
    IF s.offset < Len(s.files) /\ s.preloaded.state = "PreloadAfter"
          /\ (s.preloaded.timeout = 0 \/ elapsed)
    THEN [Spawned(s, "preloader", current(s)) EXCEPT !.preloaded = PreloadingNow]
    ELSE s

\* SelectingScene::tick, selecting.rs:407-529
scene_tick(s, keys, elapsed) ==
    LET e == SceneEvents(s, keys)
    IN IF e.ret # "Continue" THEN [e.s EXCEPT !.ret = e.ret]
       ELSE [SpawnWhenDue(Drain(e.s), elapsed) EXCEPT !.ret = "Continue"]

RECURSIVE KeySeqs(_)
KeySeqs(n) ==
    IF n = 0 THEN {<<>>}
    ELSE {<<>>} \cup {<<k>> \o ks : k \in SceneKeys, ks \in KeySeqs(n - 1)}

\* a message sent to the channel of the task: it reaches the port of the scene
\* only if that is still the port of the channel
Sent(s, t, msg) ==
    IF t.epoch = s.epoch THEN [s EXCEPT !.port = Append(@, msg)] ELSE s

Message(type, t, paths) == [type |-> type, path |-> t.path, epoch |-> t.epoch, paths |-> paths]

\* the task t moves on to pc, or ends with pc = 0
Moved(s, t, pc) ==
    [s EXCEPT !.tasks = (@ \ {t}) \cup (IF pc = 0 THEN {} ELSE {[t EXCEPT !.pc = pc]})]

\* the selection scene before its first activation; the play is not on
InitScene ==
    /\ opts = "Play" /\ chartno = 1 /\ held = {} /\ devices = {} /\ running = TRUE
    /\ player = NewPlayer(1, NNotes(1), DefaultSpeed)
    /\ tiebreak = "next" /\ lastcall = NoCall
    /\ conv = NoSetup /\ preproc = NoSetup /\ keyspec = NoSetup /\ mixer = NoSetup
    /\ scene = NewScene

NoScene == <<opts, chartno, player, held, devices, running, tiebreak, lastcall,
             conv, preproc, keyspec, mixer>>

\* SelectingScene::activate, selecting.rs:399-404: at first and after the scene
\* pushed by Return has been popped
Activate ==
    /\ ~scene.active /\ scene.ret # "PopScene"
    /\ scene' = [(IF ~scene.filesdone THEN refresh([scene EXCEPT !.keepgoing = TRUE])
                  ELSE [scene EXCEPT !.keepgoing = TRUE])
                    EXCEPT !.op = "activate", !.active = TRUE, !.ret = "Continue",
                           !.received = <<>>]
    /\ UNCHANGED NoScene

\* a call of tick by the main loop; a scene that is pushed or popped deactivates
\* this one (selecting.rs:550-553)
SceneTick ==
    /\ scene.active /\ scene.n < MaxSceneTicks
    /\ \E keys \in KeySeqs(MaxSceneKeys), elapsed \in BOOLEAN :
          \E r \in {scene_tick([scene EXCEPT !.received = <<>>], keys, elapsed)} :
             scene' = [r EXCEPT !.op = "tick", !.n = @ + 1,
                                !.active = r.ret = "Continue",
                                !.keepgoing = r.ret = "Continue"]
    /\ UNCHANGED NoScene

\* a step of the scanner, selecting.rs:212-238: the files of the next directory
\* are sent, then NoMoreFiles; it gives up when keepgoing is false
ScannerStep ==
    /\ \E t \in scene.tasks :
          /\ t.kind = "scanner"
          /\ scene' =
                [(IF t.pc <= Len(Dirs)
                  THEN IF t.epoch = scene.epoch /\ scene.keepgoing
                       THEN Moved(Sent(scene, t, Message("PushFiles", t, Dirs[t.pc])),
                                  t, t.pc + 1)
                       ELSE Moved(scene, t, 0)
                  ELSE Moved(Sent(scene, t, Message("NoMoreFiles", t, <<>>)), t, 0))
                    EXCEPT !.op = "task", !.received = <<>>]
    /\ UNCHANGED NoScene

\* a step of a preloader, selecting.rs:260-323: the hash, then the loaded data or
\* a failure to load, then the banner if there is one and it loads
PreloaderStep ==
    /\ \E t \in scene.tasks :
          /\ t.kind = "preloader"
          /\ \E ok \in (IF (MayFail(t.path) /\ t.pc = 2) \/ t.pc = 3 THEN BOOLEAN
                        ELSE {TRUE}) :
                scene' =
                  [(CASE t.pc = 1 /\ ok ->
                           Moved(Sent(scene, t, Message("BmsHashRead", t, <<>>)), t, 2)
                      [] t.pc = 2 /\ ok ->
                           Moved(Sent(scene, t, Message("BmsLoaded", t, <<>>)), t,
                                 IF HasBanner(t.path) THEN 3 ELSE 0)
                      [] t.pc \in {1, 2} /\ ~ok ->
                           Moved(Sent(scene, t, Message("BmsFailed", t, <<>>)), t, 0)
                      [] t.pc = 3 /\ ok ->
                           Moved(Sent(scene, t, Message("BmsBannerLoaded", t, <<>>)), t, 0)
                      [] t.pc = 3 /\ ~ok -> Moved(scene, t, 0))
                     EXCEPT !.op = "task", !.received = <<>>]
    /\ UNCHANGED NoScene

NextScene == Activate \/ SceneTick \/ ScannerStep \/ PreloaderStep

SpecScene == InitScene /\ [][NextScene]_vars

----------------------------------------------------------------------------
(* Properties of the grading operations, under SpecGrade *)

\* the grade the cutoffs assign to a distance d >= 0
CutoffGrade(d) ==
    IF d < 576 THEN COOL
    ELSE IF d < 1920 THEN GREAT
    ELSE IF d < 3360 THEN GOOD
    ELSE IF d < 5760 THEN BAD
    ELSE MISS

\* C2: update_grade_from_distance grades |d| < 0.0144 s as COOL, < 0.048 s as GREAT,
\* < 0.084 s as GOOD, < 0.144 s as BAD and anything else as MISS, and of any two
\* distances it has graded the one with the smaller |d| never got the lower grade.
C2_GradeByDistance ==
    /\ \A a \in lastcall.graded : a[2] = CutoffGrade(a[1])
    /\ \A a, b \in lastcall.graded : a[1] <= b[1] => a[2] >= b[2]

\* C2 witness: two distances on either side of the GREAT cutoff have been graded,
\* the nearer GREAT and the farther GOOD.
C2_Witness ==
    /\ <<1919, GREAT>> \in lastcall.graded
    /\ <<1920, GOOD>> \in lastcall.graded

\* C3: bestcombo >= lastcombo in the initial state and after every grading call.
C3_BestCombo == player.bestcombo >= player.lastcombo

\* C3 witness: a call has just pushed lastcombo above the best combo so far, and
\* bestcombo followed it.
C3_Witness ==
    /\ lastcall.n > 0
    /\ player.lastcombo > lastcall.before.bestcombo
    /\ player.bestcombo = player.lastcombo

\* C4: gauge <= MAXGAUGE in the initial state and after every grading call, whatever
\* the grades and the damages of the bombs.
C4_GaugeCapped == player.gauge <= MAXGAUGE

\* C4 witness: a COOL or GREAT arrived with the gauge within 1 of MAXGAUGE (so the cap
\* cut the gain), and later damage has taken the gauge below 0.
C4_Witness == lastcall.capped /\ player.gauge < 0

\* C5: COOL and GREAT add 1 to lastcombo and raise the gauge by 3 or 2 plus
\* min(previous combo, 100) div 50, capped at MAXGAUGE; BAD and a normal MISS reset
\* lastcombo to 0 and lower the gauge by floor(0.030 * MAXGAUGE) and
\* floor(0.059 * MAXGAUGE); GOOD changes neither.
C5_ComboAndGauge ==
    lastcall.op \in {"distance", "miss"} =>
        LET g == player.lastgrade[1]
            b == lastcall.before
            bonus == (IF b.lastcombo < 100 THEN b.lastcombo ELSE 100) \div 50
        IN /\ g = COOL => /\ player.lastcombo = b.lastcombo + 1
                           /\ player.gauge = Min(b.gauge + 3 + bonus, MAXGAUGE)
           /\ g = GREAT => /\ player.lastcombo = b.lastcombo + 1
                            /\ player.gauge = Min(b.gauge + 2 + bonus, MAXGAUGE)
           /\ g = GOOD => /\ player.lastcombo = b.lastcombo
                           /\ player.gauge = b.gauge
           /\ g = BAD => /\ player.lastcombo = 0
                          /\ player.gauge = b.gauge - 15
           /\ g = MISS => /\ player.lastcombo = 0
                           /\ player.gauge = b.gauge - 30

\* C5 witness: a GREAT at combo 100 or more has raised an uncapped gauge by 2 + 2.
C5_Witness ==
    /\ lastcall.op = "distance"
    /\ player.lastgrade[1] = GREAT
    /\ lastcall.before.lastcombo >= 100
    /\ player.gauge = lastcall.before.gauge + 4

----------------------------------------------------------------------------
(* Properties of the play *)

\* the entries of the last tick's events that reached is_unpressed and is_pressed
Dispatched == {i \in 1 .. Len(player.trace) : player.trace[i].dispatched}
Entry(i) == player.trace[i]
Notes == {i \in 1 .. NObjs(chartno) : Objs(chartno)[i].type \in {"Visible", "LNStart"}}

\* C1: in non-autoplay play every Visible or LNStart object receives at most one
\* verdict in total, counting the grades of presses and the MISS of the escape sweep.
C1_OneVerdict == opts = "Play" => \A i \in Notes : player.verdicts[i] <= 1

\* C1 witness: an object has its one verdict from the escape sweep (its resolved flag
\* is still unset) and a press of its lane has been handled after that.
C1_Witness ==
    /\ opts = "Play"
    /\ \E i \in Notes :
          /\ player.verdicts[i] = 1
          /\ ~player.nograding[i]
          /\ \E k \in Dispatched : Entry(k).pressed /\ Entry(k).lane = Objs(chartno)[i].lane

\* C6: keymultiplicity never goes below 0, and a discrete release arriving at
\* multiplicity 0 leaves it at 0.
C6_NoUnderflow ==
    /\ \A l \in Lanes : player.keymultiplicity[l] >= 0
    /\ \A k \in Dispatched :
          (Entry(k).input \in Keys /\ Entry(k).state = Neutral /\ Entry(k).multBefore = 0)
              => Entry(k).multAfter = 0

\* C6 witness: the release of a key held down since before the play started has been
\* handled at multiplicity 0.
C6_Witness ==
    \E k \in Dispatched :
        /\ Entry(k).input \in Keys
        /\ Entry(k).state = Neutral
        /\ Entry(k).multBefore = 0
        /\ Entry(k).multAfter = 0

\* C7: with two keys bound to one lane and both pressed, the release of one of them
\* reports no 'unpressed' and leaves key_pressed true; a key event reports 'pressed'
\* only when it takes the multiplicity from 0 to 1 and 'unpressed' only when it is a
\* release that leaves no key of the lane held.
C7_TwoKeys ==
    \A k \in Dispatched :
        Entry(k).input \in Keys =>
            /\ (Entry(k).state = Neutral /\ Entry(k).multBefore = 2)
                   => (~Entry(k).unpressed /\ Entry(k).multAfter > 0)
            /\ Entry(k).pressed => (Entry(k).multBefore = 0 /\ Entry(k).multAfter = 1)
            /\ Entry(k).unpressed => (Entry(k).state = Neutral /\ Entry(k).multAfter = 0)

\* C7 witness: one of two held keys of the lane has been released.
C7_Witness ==
    \E k \in Dispatched :
        /\ Entry(k).input \in Keys
        /\ Entry(k).state = Neutral
        /\ Entry(k).multBefore = 2
        /\ Entry(k).multAfter = 1
        /\ key_pressed(player, Entry(k).lane)

\* C8: no event reports 'unpressed' for a lane while another input of the lane is
\* still held: a key event does not while a key is still counted or the axis is
\* off neutral, and an axis event does not while a key is still counted.
C8_NoUnpressWhileHeld ==
    \A k \in Dispatched :
        Entry(k).unpressed =>
            /\ Entry(k).multAfter = 0
            /\ Entry(k).input \in Keys => Entry(k).joyAfter = Neutral

\* C9: an axis event that takes the lane from one polarity directly to the other
\* calls process_unpress and then process_press, and leaves the new polarity.
C9_AxisReversal ==
    \A k \in Dispatched :
        ( /\ Entry(k).input \in Axes
          /\ Entry(k).joyBefore # Neutral
          /\ Entry(k).state # Neutral
          /\ Entry(k).state # Entry(k).joyBefore )
        => /\ Entry(k).calls = <<"unpress", "press">>
           /\ Entry(k).joyAfter = Entry(k).state

\* C9 witness: the axis has gone from Positive directly to Negative.
C9_Witness ==
    \E k \in Dispatched :
        /\ Entry(k).input \in Axes
        /\ Entry(k).joyBefore = Positive
        /\ Entry(k).joyAfter = Negative

\* C10: an axis event that repeats the current axis state of the lane reports neither
\* 'pressed' nor 'unpressed', grades nothing and ends no hold.
C10_RepeatedAxisState ==
    \A k \in Dispatched :
        (Entry(k).input \in Axes /\ Entry(k).state = Entry(k).joyBefore)
        => /\ ~Entry(k).pressed
           /\ ~Entry(k).unpressed
           /\ Entry(k).gradedAfter = Entry(k).gradedBefore
           /\ Entry(k).thruAfter = Entry(k).thruBefore

\* the actual input and state of a history entry, as an event
EventOf(e) == [input |-> e.input, state |-> e.state]

\* C11: a non-Quit event that the key map does not have, or that arrives in the
\* exclusive mode, changes nothing of the play state: keymultiplicity, joystate, the
\* hold references, the resolved flags, score, combo, gauge and target speed are as
\* before it.
C11_IgnoredEvent ==
    \A k \in 1 .. Len(player.trace) :
        ( /\ from_event(EventOf(Entry(k))).input # "Quit"
          /\ keymap(Entry(k).input).kind = "None" \/ is_exclusive(opts) )
        => /\ ~Entry(k).changed
           /\ Entry(k).targetAfter = Entry(k).targetBefore
           /\ ~Entry(k).beeped

\* C11 witness: in the exclusive mode a speed-up key has gone down while a speed
\* mark lay above the nominal speed.
C11_Witness ==
    /\ opts = "Exclusive"
    /\ \E k \in 1 .. Len(player.trace) :
          /\ Entry(k).input = "KeyF4"
          /\ Entry(k).state = Positive
          /\ Entry(k).nominalBefore < 990000 - 10
          /\ Entry(k).nominalBefore > 1000

\* the history entries of the last tick that are a Quit
QuitEntries == {k \in 1 .. Len(player.trace) : from_event(EventOf(Entry(k))).input = "Quit"}
Bombs == {i \in 1 .. NObjs(chartno) : Objs(chartno)[i].type = "Bomb"}

\* C12: when a Quit (the quit event or the escape key, which the key map binds to a
\* lane) is dequeued, tick returns stop at once in every mode: no event queued after
\* it in the same tick is processed, and the bomb sweep does not run (the bombs from
\* cur on are untouched).
C12_QuitStops ==
    \A k \in QuitEntries :
        /\ ~running
        /\ k = Len(player.trace)
        /\ SubSeq(player.polled, 1, k) = [j \in 1 .. k |-> EventOf(Entry(j))]
        /\ \A i \in Bombs : i >= player.cur.index => player.verdicts[i] = 0

\* C12 witness: a Quit was dequeued with another event queued behind it, in a tick
\* whose range held a bomb of a lane that was pressed.
C12_Witness ==
    \E k \in QuitEntries :
        /\ Len(player.polled) > k
        /\ \E i \in Bombs :
              /\ i >= player.cur.index
              /\ Objs(chartno)[i].time <= player.now
              /\ key_pressed(player, Objs(chartno)[i].lane)

\* the SetBPM objects with value 0
ZeroBpms == {i \in 1 .. NObjs(chartno) : Objs(chartno)[i].type = "SetBPM" /\ Objs(chartno)[i].bpm = 0}

\* C13: when the advance of cur reaches a SetBPM of value 0, tick returns stop in that
\* call (the play never runs on past the time of the object) whatever objects
\* remain: no later object has had its effect applied (under autoplay, none is
\* graded), and that tick had no miss sweep, no input processing and no bomb sweep.
C13_ZeroBpmStops ==
    \A z \in ZeroBpms :
        /\ running => player.now < Objs(chartno)[z].time
        /\ player.now >= Objs(chartno)[z].time =>
              /\ player.bpm = 0
              /\ player.trace = <<>>
              /\ is_autoplay(opts) =>
                    \A j \in 1 .. NObjs(chartno) : j > z => player.verdicts[j] = 0
              /\ \A i \in Bombs : i >= player.cur.index => player.verdicts[i] = 0
              /\ opts = "Play" =>
                    (player.lastgrade = <<>> \/ player.lastgrade[2] < player.now)

\* C13 witness: in normal play a tick has stopped at the SetBPM of value 0 with an
\* event polled, an unresolved note already out of the grading window, a bomb of a
\* pressed lane in its range, and a note after the SetBPM.
C13_Witness ==
    /\ opts = "Play"
    /\ player.bpm = 0
    /\ player.polled # <<>>
    /\ \E i \in Notes :
          /\ player.verdicts[i] = 0
          /\ Dist(player, player.now, Objs(chartno)[i].time) >= BAD_CUTOFF
    /\ \E i \in Bombs :
          /\ i >= player.cur.index
          /\ Objs(chartno)[i].time <= player.now
          /\ key_pressed(player, Objs(chartno)[i].lane)
    /\ \E z \in ZeroBpms : \E j \in Notes : j > z

\* the Visible and LNStart objects graded so far
Graded == {i \in Notes : player.verdicts[i] > 0}

\* C14: under autoplay (the exclusive mode included) every Visible and LNStart object
\* that cur has passed has been graded exactly once, with COOL: the MISS, BAD, GOOD and
\* GREAT counts are 0, lastcombo = bestcombo = the number of objects graded, nothing
\* ahead of the clock is graded, and no step lowers the gauge, whatever lane input
\* events arrive.
C14_Autoplay ==
    /\ [](is_autoplay(opts) =>
            /\ \A i \in Notes : i < player.cur.index => player.verdicts[i] = 1
            /\ \A i \in Notes : (running /\ i >= player.cur.index) => player.verdicts[i] = 0
            /\ \A i \in (1 .. NObjs(chartno)) \ Notes : player.verdicts[i] = 0
            /\ \A i \in Graded : player.verdicts[i] = 1 /\ Objs(chartno)[i].time <= player.now
            /\ \A g \in {MISS, BAD, GOOD, GREAT} : player.gradecounts[g] = 0
            /\ player.gradecounts[COOL] = Cardinality(Graded)
            /\ player.lastcombo = Cardinality(Graded)
            /\ player.bestcombo = Cardinality(Graded)
            /\ Graded # {} => player.lastgrade[1] = COOL)
    /\ [][is_autoplay(opts) => player'.gauge >= player.gauge]_vars

\* C14 witness: under autoplay two objects have been graded and the key of their lane
\* has just gone down.
C14_Witness ==
    /\ is_autoplay(opts)
    /\ Cardinality(Graded) >= 2
    /\ \E k \in 1 .. Len(player.trace) :
          /\ Entry(k).input \in Keys
          /\ Entry(k).state = Positive
          /\ Entry(k).lane \in {Objs(chartno)[i].lane : i \in Graded}

\* C15: when a lane becomes pressed and has a not yet resolved Visible or LNStart
\* object at or after checked within the scaled BAD cutoff of cur, the press grades
\* the nearest such object (and makes it the lane's hold if it is an LNStart), also
\* when a resolved object or an LNDone of the lane is nearer to cur.
C15_PressGradesNearest ==
    \A k \in Dispatched :
        (Entry(k).pressed /\ Entry(k).nearest # {})
        => /\ Entry(k).hit # {}
           /\ Entry(k).hit \subseteq Entry(k).nearest
           /\ \A i \in Entry(k).hit :
                 is_lnstart(Objs(chartno)[i]) => Entry(k).thruAfter = i

\* the LNDone objects, and the first LNDone of an object's lane from index `from` on
LNDones == {i \in 1 .. NObjs(chartno) : is_lndone(Objs(chartno)[i])}
NextLNDone(lane, from) == FindNext({i \in LNDones : Objs(chartno)[i].lane = lane}, from)

\* the unpress entries of the last tick that found the lane's hold open with the
\* LNDone that follows the hold start within the scaled BAD cutoff of cur
CleanReleases ==
    {k \in Dispatched :
        /\ Entry(k).unpressed
        /\ Entry(k).thruBefore # NoPointer
        /\ NextLNDone(Entry(k).lane, Entry(k).thruBefore) # NoPointer
        /\ Abs(Dist(player,
                    Objs(chartno)[NextLNDone(Entry(k).lane, Entry(k).thruBefore)].time,
                    player.now)) < BAD_CUTOFF}

\* C16: when a lane with an open hold becomes unpressed and the next LNDone of the
\* lane after the hold start is within the scaled BAD cutoff of cur, that LNDone is
\* flagged resolved without a grade event (grade counts, score, combo, gauge and
\* lastgrade stay as they are) and the hold reference of the lane is cleared.
C16_CleanRelease ==
    \A k \in CleanReleases :
        /\ Entry(k).released = {NextLNDone(Entry(k).lane, Entry(k).thruBefore)}
        /\ Entry(k).missed = {}
        /\ Entry(k).gradingKept
        /\ Entry(k).thruMid = NoPointer
        /\ player.nograding[NextLNDone(Entry(k).lane, Entry(k).thruBefore)]
        /\ player.verdicts[NextLNDone(Entry(k).lane, Entry(k).thruBefore)] = 0

\* C16 witness: a hold has been released after its LNDone, within the BAD cutoff.
C16_Witness ==
    \E k \in CleanReleases :
        Objs(chartno)[NextLNDone(Entry(k).lane, Entry(k).thruBefore)].time < player.now

\* this step issues a MISS for the LNDone j, which by then lags cur by the scaled
\* BAD cutoff or more
LateMiss(j) ==
    /\ player'.verdicts[j] > player.verdicts[j]
    /\ Dist(player', player'.now, Objs(chartno)[j].time) >= BAD_CUTOFF

\* C17, as claimed: for a long note whose start was hit and whose key is released
\* later than the LNDone by the BAD cutoff or more, exactly one MISS is issued and
\* it is issued when the release is processed, not in an earlier tick: the tick
\* that issues it dequeues a release of the lane.
C17_MissAtRelease ==
    [][\A j \in LNDones :
          LateMiss(j) =>
              /\ player'.verdicts[j] = 1
              /\ \E k \in 1 .. Len(player'.trace) :
                    /\ player'.trace[k].unpressed
                    /\ player'.trace[k].lane = Objs(chartno)[j].lane]_vars

\* C17, amended: for a long note whose start was hit and whose key is still held
\* when the LNDone falls behind cur by the scaled BAD cutoff, exactly one MISS is
\* issued, by the escape sweep of the first tick in which the LNDone lags cur by the
\* cutoff or more (whether or not the release has arrived); a release processed in
\* that tick or later finds the hold closed and issues no grade.
C17_MissAtEscape ==
    /\ [](/\ \A j \in LNDones : player.verdicts[j] <= 1
          /\ \A k \in Dispatched :
                \A i \in Entry(k).missed : Objs(chartno)[i].time > player.now)
    /\ [][\A j \in LNDones :
             LateMiss(j) =>
                 /\ player.thru[Objs(chartno)[j].lane] # NoPointer
                 /\ Dist(player, player.now, Objs(chartno)[j].time) < BAD_CUTOFF
                 /\ player'.thru[Objs(chartno)[j].lane] = NoPointer
                 /\ player'.lastgrade = <<MISS, player'.now>>
                 /\ \A k \in 1 .. Len(player'.trace) :
                       player'.trace[k].unpressed =>
                           /\ player'.trace[k].thruBefore = NoPointer
                           /\ player'.trace[k].missed = {}
                           /\ player'.trace[k].gradingKept]_vars

\* C17 witness: the start of a long note was hit, its LNDone has got its MISS in this
\* tick, and this tick has processed the release of the key.
C17_Witness ==
    \E j \in LNDones :
        /\ player.verdicts[j] = 1
        /\ player.lastgrade = <<MISS, player.now>>
        /\ player.gradecounts[MISS] = 1
        /\ \E i \in Notes : is_lnstart(Objs(chartno)[i]) /\ i < j /\ player.nograding[i]
        /\ \E n \in Dispatched :
              /\ Entry(n).input \in Keys
              /\ Entry(n).state = Neutral
              /\ Entry(n).unpressed
              /\ Entry(n).missed = {}

\* the number of bombs that have hit
BombHits == Cardinality({i \in Bombs : player.verdicts[i] > 0})

\* C18: when a bomb hits a lane that is holding a long note, the hold reference is
\* dropped and the long note causes no further MISS: its LNDone never gets a
\* verdict, neither from the later release nor from escaping the window, and the
\* only MISS is the bomb's own, with the bomb's damage in place of that of a MISS.
C18_BombDropsHold ==
    \A s \in player.dropped :
        /\ player.verdicts[NextLNDone(Objs(chartno)[s].lane, s)] = 0
        /\ player.thru[Objs(chartno)[s].lane] # s
        /\ player.verdicts[s] = 1
        /\ \A i \in Bombs : player.verdicts[i] <= 1
        /\ player.gradecounts[MISS] = BombHits
        /\ player.gauge = ((MAXGAUGE * 500) \div 1000)
                              + 3 * player.gradecounts[COOL] + 2 * player.gradecounts[GREAT]
                              - 15 * player.gradecounts[BAD]
                              - ((MAXGAUGE * 250) \div 1000) * BombHits

\* C18 witness: a bomb has dropped the hold of a long note, the key has been released
\* since, and the LNDone has escaped the grading window and been swept over.
C18_Witness ==
    \E s \in player.dropped :
        /\ ~key_pressed(player, Objs(chartno)[s].lane)
        /\ player.checked > NextLNDone(Objs(chartno)[s].lane, s)
        /\ Dist(player, player.now,
                Objs(chartno)[NextLNDone(Objs(chartno)[s].lane, s)].time) >= BAD_CUTOFF

\* the bombs with the InstantDeath damage that have hit
Deaths == {i \in Bombs : Objs(chartno)[i].damage = InstantDeath /\ player.verdicts[i] > 0}

\* the gauge as the grades before the instant death left it: the initial gauge, the
\* gains of COOL and GREAT (no combo bonus below a combo of 50), the damage of BAD
\* and of the MISS of the sweep, and the damage of the other bombs that hit
GaugeBeforeDeath ==
    LET hits == {i \in Bombs : player.verdicts[i] > 0}
        RECURSIVE Damages(_)
        Damages(S) ==
            IF S = {} THEN 0
            ELSE LET i == CHOOSE x \in S : TRUE
                 IN ((MAXGAUGE * Objs(chartno)[i].damage.ratio) \div 1000)
                        + Damages(S \ {i})
    IN ((MAXGAUGE * 500) \div 1000)
           + 3 * player.gradecounts[COOL] + 2 * player.gradecounts[GREAT]
           - 15 * player.gradecounts[BAD]
           - 30 * (player.gradecounts[MISS] - Cardinality(hits))
           - Damages(hits)

\* C19: when a bomb with the InstantDeath damage hits a pressed lane, the gauge
\* becomes min(gauge, 0), cur is set to the end of the chart, tick returns stop, and
\* no bomb later in the range of that tick is applied.
C19_InstantDeath ==
    \A d \in Deaths :
        /\ ~running
        /\ player.verdicts[d] = 1
        /\ player.gauge = Min(GaugeBeforeDeath, 0)
        /\ player.cur = [index |-> NObjs(chartno) + 1,
                         time |-> Objs(chartno)[NObjs(chartno)].time]
        /\ player.lastgrade = <<MISS, player.now>>
        /\ \A i \in Bombs : i > d => player.verdicts[i] = 0

\* C19 witness: an instant death has struck with the gauge already below 0 and with
\* a later bomb of the same lane within the range of that tick.
C19_Witness ==
    \E d \in Deaths :
        /\ player.gauge < 0
        /\ \E i \in Bombs :
              /\ i > d
              /\ Objs(chartno)[i].time <= player.now
              /\ key_pressed(player, Objs(chartno)[i].lane)

\* the speed marks above and below the speed s, a mark within 0.001 of s counting
\* as equal to it
MarksAbove(s) == {SPEED_MARKS[i] : i \in {n \in 1 .. Len(SPEED_MARKS) : SPEED_MARKS[n] > s + 10}}
MarksBelow(s) == {SPEED_MARKS[i] : i \in {n \in 1 .. Len(SPEED_MARKS) : SPEED_MARKS[n] < s - 10}}
Least(S) == CHOOSE m \in S : \A n \in S : m <= n
Greatest(S) == CHOOSE m \in S : \A n \in S : m >= n

\* the speed inputs of the last tick that were acted on: not skipped, and not the
\* return of the key or the axis to neutral
SpeedEntries(kind) ==
    {k \in 1 .. Len(player.trace) :
        /\ keymap(Entry(k).input).kind = kind
        /\ Entry(k).state # Neutral
        /\ ~is_exclusive(opts)}

\* C20: for any nominal play speed s, a speed-up input sets the target speed to the
\* smallest mark above s whenever there is one, and a speed-down input to the
\* largest mark below s whenever there is one, with a beep; the input does nothing
\* and does not beep only when there is no such mark.
C20_SpeedMarks ==
    /\ \A k \in SpeedEntries("SpeedUp") :
          IF MarksAbove(Entry(k).nominalBefore) # {}
          THEN /\ Entry(k).targetAfter = Least(MarksAbove(Entry(k).nominalBefore))
               /\ Entry(k).beeped
          ELSE /\ Entry(k).targetAfter = Entry(k).targetBefore
               /\ ~Entry(k).beeped
    /\ \A k \in SpeedEntries("SpeedDown") :
          IF MarksBelow(Entry(k).nominalBefore) # {}
          THEN /\ Entry(k).targetAfter = Greatest(MarksBelow(Entry(k).nominalBefore))
               /\ Entry(k).beeped
          ELSE /\ Entry(k).targetAfter = Entry(k).targetBefore
               /\ ~Entry(k).beeped

\* the speed inputs acted on by the last tick
SpeedInputs == SpeedEntries("SpeedUp") \cup SpeedEntries("SpeedDown")

\* a tick that finds a target speed set and receives no speed input
Easing ==
    /\ player.targetspeed # NoSpeed
    /\ player' # player
    /\ \A k \in 1 .. Len(player'.trace) : keymap(player'.trace[k].input).kind = "None"

\* C21: with a target speed set, a tick without speed input moves playspeed by a
\* tenth of the remaining difference to the target and keeps the target, or, once
\* the difference is below 0.001, sets playspeed to the target and clears it; and
\* if from some tick on no speed input arrives, then after finitely many ticks the
\* target is cleared for good, playspeed being the last target.
C21_Easing ==
    /\ [][Easing =>
            LET delta == player.targetspeed - player.playspeed
            IN IF Abs(delta) < SPEED_TOLERANCE
               THEN /\ player'.playspeed = player.targetspeed
                    /\ player'.targetspeed = NoSpeed
               ELSE /\ 10 * Abs(player'.playspeed - player.playspeed) <= Abs(delta)
                    /\ 10 * Abs(player'.playspeed - player.playspeed) > Abs(delta) - 10
                    /\ Abs(player.targetspeed - player'.playspeed) < Abs(delta)
                    /\ player'.targetspeed = player.targetspeed]_vars
    /\ \A target \in {SPEED_MARKS[1]} :
          <>[](nominal_playspeed(player) = target /\ player.polled = <<>>)
              => <>[](player.playspeed = target /\ player.targetspeed = NoSpeed)

\* the target speed was reached by easing: it is cleared, and playspeed is the lowest
\* mark, which is not a play speed of the options
C21_Witness ==
    /\ player.targetspeed = NoSpeed
    /\ player.playspeed = SPEED_MARKS[1]
    /\ player.polled = <<>>

\* C22: once a negative BPM has armed the reverse marker, a later tick returns
\* false; and a tick in reverse motion that returns false without a quit input
\* does so with cur behind the origin offset, every tick since the marker was armed
\* having moved cur backwards.
C22_ReverseEnds ==
    /\ (player.reverse # NoPointer) ~> ~running
    /\ [][player.reverse # NoPointer /\ player' # player =>
             /\ player'.reverse = player.reverse
             /\ \/ QuitEntries' # {} /\ ~running'
                \/ /\ player'.cur.time < player.cur.time
                   /\ player'.cur.index <= player.cur.index
                   /\ player'.cur.index >= 1
                   /\ running' <=> player'.cur.time >= originoffset]_vars

\* the play has ended in reverse motion, without a quit input, cur being behind the
\* origin offset
C22_Witness ==
    /\ player.reverse # NoPointer
    /\ ~running
    /\ QuitEntries = {}
    /\ player.cur.time < originoffset
    /\ player.cur.index = 1

\* C23: update_grade and update_grade_from_damage return true when the damage
\* handed to them is the instant death (and the gauge is then at most 0).
C23_TrueOnInstantDeath ==
    lastcall.op = "damage" /\ lastcall.damage = InstantDeath =>
        lastcall.ret /\ player.gauge <= 0

\* the play is complete: tick has returned false with cur at the end of the chart
Complete == ~running /\ player.cur.index = NObjs(chartno) + 1

\* C24: when a complete play has issued no BAD and no MISS, lastcombo and bestcombo
\* are the number of Visible and LNStart objects of the chart (nnotes).
C24_FullCombo ==
    Complete /\ player.gradecounts[BAD] = 0 /\ player.gradecounts[MISS] = 0 =>
        /\ player.lastcombo = player.nnotes
        /\ player.bestcombo = player.nnotes

\* C25: to_visible, to_invisible, to_lnstart and to_lndone fail exactly on the values
\* for which is_object() is false; on every value for which it is true they return
\* the target variant with the same lane and the same sound.
C25_ConvertsObjects ==
    conv.op \in ConvOps =>
        /\ conv.result = Failure <=> ~is_object(conv.data)
        /\ is_object(conv.data) =>
              /\ conv.result.type = ConvTarget(conv.op)
              /\ conv.result.lane = conv.data.lane
              /\ conv.result.sound = conv.data.sound

\* the commands of the sequence of feeds fs that were fed while the preprocessor
\* was not inactive, in feed order
RECURSIVE Kept(_)
Kept(fs) ==
    IF fs = <<>> THEN <<>>
    ELSE IF fs[1].active THEN <<fs[1].cmd>> \o Kept(Tail(fs)) ELSE Kept(Tail(fs))

\* C26: the result holds, unchanged and in feed order, exactly the commands fed with
\* feed_other while the preprocessor was not inactive; when no flow command has been
\* fed these are all the commands fed, each once; and finish appends nothing.
C26_FeedOther ==
    /\ preproc.result = Kept(preproc.fed)
    /\ preproc.flows = 0 => preproc.result = [i \in 1 .. Len(preproc.fed) |-> preproc.fed[i].cmd]
    /\ preproc.finished => preproc.result = preproc.atfinish

\* after flow commands, a command fed while inactive was dropped, one fed while
\* active was kept, and finish has been called
C26_Witness ==
    /\ preproc.finished
    /\ preproc.flows > 0
    /\ \E i, j \in 1 .. Len(preproc.fed) : preproc.fed[i].active /\ ~preproc.fed[j].active
    /\ Len(preproc.result) = 1

\* C27: when tick returns false in normal play, the scene moves on to the result
\* screen if the chart has completed without a quit input, and pops, skipping the
\* result screen, whenever the tick was ended by a quit input, wherever cur is.
C27_QuitSkipsResult ==
    ~running /\ ~is_autoplay(opts) =>
        /\ QuitEntries # {} => SceneCommand(chartno, opts, player, running) = "Pop"
        /\ QuitEntries = {} /\ Complete =>
              SceneCommand(chartno, opts, player, running) = "Replace"

\* the lanes the words of a string name, in order
RECURSIVE NamedLanes(_)
NamedLanes(s) ==
    IF s = <<>> THEN <<>>
    ELSE IF Head(s).blank THEN NamedLanes(Tail(s))
    ELSE <<Head(s).chan - 36>> \o NamedLanes(Tail(s))

NamedTwice(lanes) == \E i, j \in 1 .. Len(lanes) : i # j /\ lanes[i] = lanes[j]

\* a side that is given and fails to parse or parses to nothing
BadSide(s) == s # <<>> /\ (parse_key_spec(s) = None \/ parse_key_spec(s).val = <<>>)

\* C28: key_spec returns an error when no left-hand key spec is given, when a side
\* that is given fails to parse or parses to nothing, or when a lane is named twice
\* within or across the two sides; every KeySpec it returns has distinct lanes in
\* order, kinds[l] set exactly for the lanes in order, and split <= order.len(), so
\* the assertions of left_lanes and right_lanes hold
C28_KeySpec ==
    keyspec.op = "key_spec" =>
        LET r == keyspec.result
        IN /\ keyspec.keys # None =>
                LET left == keyspec.keys.val.left
                    right == keyspec.keys.val.right
                IN /\ left = <<>> => ~r.ok
                   /\ BadSide(left) \/ BadSide(right) => ~r.ok
                   /\ NamedTwice(NamedLanes(left) \o NamedLanes(right)) => ~r.ok
           /\ r.ok =>
                /\ ~NamedTwice(r.order)
                /\ \A l \in 0 .. NLANES - 1 :
                      r.kinds[l] # NoKind <=> \E i \in 1 .. Len(r.order) : r.order[i] = l
                /\ r.split <= Len(r.order)
                /\ left_lanes(r) # AssertionFailed
                /\ right_lanes(r) # AssertionFailed

\* key_spec returned a KeySpec for two sides given with the options
C28_Witness ==
    /\ keyspec.op = "key_spec"
    /\ keyspec.leftkeys # None /\ keyspec.rightkeys # None
    /\ keyspec.result.ok
    /\ Len(keyspec.result.order) = 2
    /\ keyspec.result.split = 2

\* the place of a part of tick in the order of the code
PartRank(part) ==
    CASE part = "effect" -> 1
      [] part = "sweep" -> 2
      [] part = "input" -> 3
      [] part = "bomb" -> 4

\* the parts of the last tick acted in the order of their ranks
PartsInOrder ==
    \A i, j \in 1 .. Len(player.phases) :
        i < j => PartRank(player.phases[i]) < PartRank(player.phases[j])

\* no press of the last tick graded an object behind the checked boundary
PressesAfterSweep ==
    \A k \in 1 .. Len(player.trace) :
        \A i \in player.trace[k].hit : i >= player.checked

\* C29: within one tick all object effects (BGM sound, BPM change, autoplay grades)
\* come before any MISS of the escape sweep, all sweep MISSes before the handling of
\* any input, and all input handling before any bomb damage; no press grades an
\* object behind the checked boundary the sweep of the tick left, and a bomb that
\* cur passes hits exactly when its lane is pressed after the inputs of the tick
C29_TickOrder ==
    [][ /\ PartsInOrder'
        /\ PressesAfterSweep'
        /\ \A i \in Bombs :
              /\ player'.verdicts[i] > player.verdicts[i]
                    => key_pressed(player', Objs(chartno)[i].lane)
              /\ ( /\ opts = "Play" /\ running'
                   /\ player.cur.index <= i /\ i < player'.cur.index
                   /\ key_pressed(player', Objs(chartno)[i].lane) )
                    => player'.verdicts[i] > player.verdicts[i] ]_vars

\* C29 witness: a tick in which a sound of the background played, the sweep issued
\* a MISS, an input was handled and a bomb hit the lane that an input of the tick
\* pressed
C29_Witness ==
    /\ player.phases = <<"effect", "sweep", "input", "bomb">>
    /\ \E k \in 1 .. Len(player.trace) :
          /\ player.trace[k].lane # 0
          /\ player.trace[k].multBefore = 0
          /\ player.trace[k].multAfter > 0
          /\ \E i \in Bombs : Objs(chartno)[i].lane = player.trace[k].lane
                                /\ player.verdicts[i] > 0

\* the Visible and LNStart objects that lag cur by the BAD cutoff or more
Escaped ==
    {i \in Notes : Dist(player, player.cur.time, Objs(chartno)[i].time) >= BAD_CUTOFF}

\* C30: in normal play and forward motion, after every tick that ran to its end
\* (no instant death; a tick left at a Quit or at a BPM of 0 leaves cur where it
\* was), every Visible or LNStart object that lags cur by BAD_CUTOFF over the grade
\* factor or more is resolved: a press graded it, or it is behind checked and got
\* the MISS of the escape sweep
C30_EscapedResolved ==
    (opts = "Play" /\ player.reverse = NoPointer /\ Deaths = {}) =>
        \A i \in Escaped :
            /\ player.verdicts[i] = 1
            /\ player.nograding[i] \/ i < player.checked

\* C30 witness: two notes have escaped, one graded by a press and one by the MISS
\* of the sweep
C30_Witness ==
    /\ opts = "Play" /\ player.reverse = NoPointer /\ Deaths = {}
    /\ \E i, j \in Escaped :
          /\ player.nograding[i] /\ player.verdicts[i] = 1
          /\ ~player.nograding[j] /\ player.verdicts[j] = 1
          /\ j < player.checked

\* C31: in normal forward play, a sweep that breaks at an object still inside the
\* grading window leaves checked at that object, tick commits that boundary, the
\* next sweep is handed that object first, and no sweep is ever handed an object
\* before the boundary the tick before it left
C31_SweepBreak ==
    [][ (opts = "Play" /\ player.reverse = NoPointer /\ player'.reverse = NoPointer) =>
          /\ player'.sweep.brokeAt # NoPointer =>
                player'.sweep.checked = player'.sweep.brokeAt
          /\ (player'.sweep.ran /\ running') => player'.checked = player'.sweep.checked
          /\ \A k \in 1 .. Len(player'.sweep.yielded) :
                player'.sweep.yielded[k] >= player.checked
          /\ (player.sweep.brokeAt # NoPointer /\ player'.sweep.ran) =>
                /\ player'.sweep.yielded # <<>>
                /\ player'.sweep.yielded[1] = player.sweep.brokeAt ]_vars

\* C31 witness: the sweep of the last tick was handed an object that an earlier
\* sweep had broken at, found it escaped and gave it the MISS, and broke again at a
\* later object
C31_Witness ==
    /\ opts = "Play"
    /\ player.sweep.brokeAt # NoPointer
    /\ Len(player.sweep.yielded) >= 2
    /\ player.verdicts[player.sweep.yielded[1]] = 1
    /\ ~player.nograding[player.sweep.yielded[1]]
    /\ player.checked = player.sweep.brokeAt

\* C32: after any sequence of play_sound calls the two tables are mutually inverse:
\* sndlastch[x] = Some(y) if and only if lastchsnd[y] = Some(x), for every sound x
\* and channel y
C32_TablesInverse ==
    mixer.op # "none" =>
        \A x \in Sounds, y \in 0 .. mixer.nchannels - 1 :
            mixer.sndlastch[x] = y <=> mixer.lastchsnd[y] = x

\* C32 witness: a sound has taken the channel another sound was last played on,
\* whose entry is gone, and play_sound has allocated more channels
C32_Witness ==
    /\ mixer.op = "play_sound"
    /\ mixer.nchannels > InitialChannels
    /\ \E x \in mixer.played : HasChunk(x) /\ mixer.sndlastch[x] = NoIndex
    /\ \E x \in Sounds : mixer.sndlastch[x] # NoIndex

\* C33: a grade factor below 1 shrinks the grading area: an offset at which a press
\* is accepted under a grade factor below 1 is accepted under the grade factor 1,
\* that is, the unscaled distance of every object a press grades is below the BAD
\* cutoff (gradefactor is kept in quarters)
C33_FactorShrinks ==
    (opts = "Play" /\ player.gradefactor < 4) =>
        \A k \in Dispatched :
            \A i \in Entry(k).hit :
                Abs(Objs(chartno)[i].time - player.cur.time) * TimeUnit < BAD_CUTOFF

\* C34: under any interleaving of worker messages with navigation keys and
\* refreshes, Preloaded data was loaded from the path of the currently selected
\* entry by a task of the current refresh, and so was its banner; a BmsFailed,
\* BmsHashRead, BmsLoaded or BmsBannerLoaded message for a path that is not the
\* current one leaves the preloading state as it was
C34_PreloadedIsCurrent ==
    scene.op # "none" =>
        /\ scene.preloaded.state = "Preloaded" =>
              /\ scene.preloaded.path = current(scene)
              /\ current(scene) # NoPath
              /\ scene.preloaded.epoch = scene.epoch
              /\ scene.preloaded.banner \in {NoPath, current(scene)}
        /\ \A k \in 1 .. Len(scene.received) :
              LET r == scene.received[k]
              IN /\ r.msg.epoch = scene.epoch
                 /\ (r.msg.type \in {"BmsFailed", "BmsHashRead", "BmsLoaded",
                                     "BmsBannerLoaded"}
                        /\ r.msg.path # r.current) => r.after = r.before

\* C34 witness: with the second entry selected and its data preloaded, a tick
\* received a message of the preloader of the first entry, which was still running
\* when the selection moved, and ignored it
C34_Witness ==
    /\ scene.op = "tick"
    /\ scene.offset = 1
    /\ scene.preloaded.state = "Preloaded"
    /\ \E k \in 1 .. Len(scene.received) :
          /\ scene.received[k].msg.type \in {"BmsLoaded", "BmsBannerLoaded"}
          /\ scene.received[k].msg.path # scene.received[k].current
          /\ scene.received[k].before.state = "Preloaded"

\* C35: a key press never grades MISS.  The press half of a lane input changes the
\* grading state only by grading one object, which then was unresolved, not an
\* LNDone, at or after checked and closer than the BAD cutoff at the time of the
\* press, and the one grade count it raises is that of COOL, GREAT, GOOD or BAD;
\* a press that grades no object leaves the grading state and the flags alone.
C35_PressNeverMisses ==
    \A k \in 1 .. Len(player.trace) :
        LET e == Entry(k)
        IN e.pressed =>
              /\ e.pressCounts[MISS] = 0
              /\ Cardinality(e.hit) <= 1
              /\ e.hit = {} => e.pressKept
              /\ e.hit # {} =>
                    /\ ~e.pressKept
                    /\ \E g \in BAD .. COOL :
                          e.pressCounts = [h \in MISS .. COOL |-> IF h = g THEN 1 ELSE 0]
                    /\ \A i \in e.hit :
                          /\ Objs(chartno)[i].type \in {"Visible", "LNStart"}
                          /\ i \in e.nearest

\* C35 witness: a press more than the BAD cutoff before the only note of the chart,
\* which is unresolved and ahead of checked, graded nothing and changed nothing
C35_Witness ==
    /\ chartno = 13
    /\ ~player.nograding[1]
    /\ player.checked <= 1
    /\ Abs(Dist(player, Objs(chartno)[1].time, player.cur.time)) >= BAD_CUTOFF
    /\ \E k \in 1 .. Len(player.trace) :
          Entry(k).pressed /\ Entry(k).hit = {} /\ Entry(k).pressKept
\* the LNStart an LNDone ends: the last LNStart of its lane before it
Paired(c, i) ==
    CHOOSE j \in 1 .. i - 1 :
        /\ is_lnstart(Objs(c)[j]) /\ Objs(c)[j].lane = Objs(c)[i].lane
        /\ \A k \in j + 1 .. i - 1 :
              ~(is_lnstart(Objs(c)[k]) /\ Objs(c)[k].lane = Objs(c)[i].lane)

\* the LNDone objects an unpress of the tick graded with the hold h open before it
MissedByUnpress(p, i, h) ==
    \E k \in 1 .. Len(p.trace) :
        p.trace[k].unpressed /\ i \in p.trace[k].missed /\ p.trace[k].thruBefore = h

MissedByAnyUnpress(p, i) ==
    \E k \in 1 .. Len(p.trace) : p.trace[k].unpressed /\ i \in p.trace[k].missed

\* C36: the end of a long note is given a MISS at most once, by an early release
\* or by the escape sweep, and only while the open hold of its lane is the LNStart
\* paired with it; so a long note whose LNStart was never hit gets no MISS for its
\* end, one MISS in total.  In every tick that grades an LNDone, the LNDone had no
\* grade before and the hold open when it was graded, before the unpress that
\* graded it or else at the start of the tick, was its own LNStart.
C36_EndMissedOnce ==
    [][\A i \in 1 .. NObjs(chartno) :
          (is_lndone(Objs(chartno)[i]) /\ player'.verdicts[i] > player.verdicts[i])
          => /\ player.verdicts[i] = 0
             /\ player'.verdicts[i] = 1
             /\ IF MissedByAnyUnpress(player', i)
                THEN MissedByUnpress(player', i, Paired(chartno, i))
                ELSE player.thru[Objs(chartno)[i].lane] = Paired(chartno, i)]_vars
\* the bombs a step moves cur past
PassedBombs == {i \in Bombs : player.cur.index <= i /\ i < player'.cur.index}

\* an instant-death bomb before object i in the range of the step hit
KilledBefore(i) ==
    \E j \in PassedBombs :
        /\ j < i
        /\ ~KeepGoing(Objs(chartno)[j].damage)
        /\ key_pressed(player', Objs(chartno)[j].lane)

\* C37 as stated: in normal forward play every bomb is applied in the tick that
\* moves cur past it, once, exactly when its lane is pressed after the inputs of
\* that tick, and in no other tick
C37_EveryBombExamined ==
    [][(opts = "Play" /\ player.reverse = NoPointer)
       => \A i \in Bombs :
             IF i \in PassedBombs
             THEN /\ player.verdicts[i] = 0
                  /\ player'.verdicts[i]
                        = IF key_pressed(player', Objs(chartno)[i].lane) THEN 1 ELSE 0
             ELSE player'.verdicts[i] = player.verdicts[i]]_vars

\* C37, amended: in normal forward play every bomb is examined in exactly one tick,
\* the tick that moves cur past it, and applied there once exactly when its lane
\* is pressed after the inputs of that tick, unless an instant-death bomb earlier
\* in the range of that tick hit: then the tick stops at that bomb, cur jumps to
\* the end and the bombs behind it are never applied.  No tick applies a bomb that
\* it does not move cur past.
C37_BombExaminedUnlessDead ==
    [][(opts = "Play" /\ player.reverse = NoPointer)
       => \A i \in Bombs :
             IF i \in PassedBombs
             THEN /\ player.verdicts[i] = 0
                  /\ player'.verdicts[i]
                        = IF /\ key_pressed(player', Objs(chartno)[i].lane)
                             /\ ~KilledBefore(i)
                          THEN 1 ELSE 0
             ELSE player'.verdicts[i] = player.verdicts[i]]_vars

\* C37 witness: cur is past three bombs; the first was applied, the second was
\* passed with the lane not pressed and the third was applied in a later tick
C37_Witness ==
    /\ chartno = 9
    /\ running
    /\ player.cur.index > 4
    /\ player.verdicts[2] = 1
    /\ player.verdicts[3] = 0
    /\ player.verdicts[4] = 1
\* C38: whenever a tick starts with the reverse marker armed, the assertion of the
\* reverse motion holds: the BPM is negative and the time is not before that of
\* the marker.  The time of a tick is never before that of the tick before, so the
\* assertion holds at the start of the next tick when it holds of the time now.
C38_ReverseAssertionHolds ==
    (running /\ player.reverse # NoPointer)
    => ReverseAsserted(chartno, player, player.now)
\* C39: the character to_char gives for a key kind is read back by from_char as
\* that kind, for every key kind: the kind character in the name of every
\* environment variable read_keymap has formed parses back to the kind of its lane
C39_CharRoundTrip ==
    \A i \in 1 .. Len(keyspec.envvars) :
        from_char(keyspec.envvars[i].kind) = keyspec.kinds[i]
\* C40: at most one branch of an #IF/#ELSEIF/#ELSE chain is active.  In every
\* block at most one branch of the chain in progress has been in the Process
\* state, and the block is in that state only through that branch; once one has
\* been, the block is NoFurther after every #ELSEIF and #ELSE up to the #ENDIF.  A
\* block opened in an inactive region has its skip flag set, as has every block
\* opened inside it, so that inactive() holds while it is the last block whatever
\* its own state is.
C40_OneBranchPerChain ==
    /\ Len(preproc.taken) = Len(preproc.blocks)
    /\ \A k \in 1 .. Len(preproc.blocks) :
          /\ preproc.taken[k] <= 1
          /\ (preproc.blocks[k].state = "Process") => (preproc.taken[k] = 1)
          /\ k > 1 => (preproc.blocks[k].skip = inactive(SubSeq(preproc.blocks, 1, k - 1)))
    /\ (/\ preproc.op = "feed_flow"
        /\ preproc.lastflow.kind \in {"ElseIf", "Else"}
        /\ preproc.taken[Len(preproc.taken)] = 1
        /\ preproc.blocks[Len(preproc.blocks)].state # "Process")
       => preproc.blocks[Len(preproc.blocks)].state = "NoFurther"
    /\ (\E k \in 1 .. Len(preproc.blocks) :
           preproc.blocks[k].skip \/ StateInactive(preproc.blocks[k].state))
       => inactive(preproc.blocks)

\* C40 witness: in a block whose value is 1, after a branch was active, an #ELSEIF
\* with the value 1 has been fed and has left the block in NoFurther
C40_Witness ==
    /\ preproc.op = "feed_flow"
    /\ preproc.lastflow = [kind |-> "ElseIf", val |-> 1]
    /\ Len(preproc.blocks) = 2
    /\ preproc.blocks[2] = Block(1, "NoFurther", FALSE)
    /\ preproc.taken[2] = 1
====
